---------------------------- MODULE Spec2Model ----------------------------
(***************************************************************************)
(* A model of the reactivity engine of src/src/vue.js (lines 1-285, the    *)
(* current snapshot of the module): ref, computed, watch, the reactive     *)
(* proxy and the dependency registry.                                      *)
(*                                                                         *)
(* The engine is synchronous: a write runs every re-evaluation it causes   *)
(* before it returns.  Each public operation is therefore one action; the  *)
(* engine's functions are operators that take the program state as a       *)
(* record and return the state they leave behind (field ret holds a        *)
(* function's return value, field err a raised and uncaught error).        *)
(***************************************************************************)
EXTENDS Integers, Sequences, FiniteSets, TLC

VARIABLES
    cells,          \* the RefImpl objects, by creation order
    heap,           \* the raw objects and arrays
    proxies,        \* the Proxy objects: proxies[p] is the raw target of p
    targetMap,      \* raw object -> sequence of [key, dep] (a Map, in order)
    effects,        \* the runEffect closures and what they close over
    currentEffect,  \* 0 (null) or the running effect
    log,            \* what the last public operation ran, in order
    err,            \* the error the last public operation raised, or "none"
    last            \* the last public operation and its arguments

vars == <<cells, heap, proxies, targetMap, effects, currentEffect, log, err, last>>

-----------------------------------------------------------------------------
(* Bounds of the model. *)

MaxCells == 2
MaxEffects == 2
MaxDepth == 3
MaxProxies == 2

-----------------------------------------------------------------------------
(* JavaScript values.  Every value is a record [t, n]. *)

Num(n) == [t |-> "num", n |-> n]
NaN == [t |-> "nan", n |-> 0]
Undefined == [t |-> "undef", n |-> 0]
Null == [t |-> "null", n |-> 0]
Raw(o) == [t |-> "raw", n |-> o]
Proxy(p) == [t |-> "proxy", n |-> p]
\* the RefImpl object that is cell c, as the argument of a call
RefV(c) == [t |-> "ref", n |-> c]

Range(seq) == {seq[i] : i \in 1..Len(seq)}

\* (mutation: the dep is a list, an effect added again is in it twice)
SetAddAgain(dep, e) == Append(dep, e)
\* (mutation: an effect added again moves to the end)
SetAddLast(dep, e) == Append(SelectSeq(dep, LAMBDA x : x # e), e)
\* dep.add(effect): a Set keeps insertion order and no duplicates
SetAdd(dep, e) == IF e \in Range(dep) THEN dep ELSE Append(dep, e)

\* a === b
StrictEq(a, b) == a = b /\ a.t # "nan"

\* utils.js isObject
isObject(v) == v.t \in {"raw", "proxy"}

\* vue.js isRef: value && value[IS_REF] === true
isRef(v) == v.t = "ref"

\* vue.js isReactive: the get trap answers true for IS_REACTIVE
isReactive(v) == v.t = "proxy"

\* Number(v) of a primitive used in arithmetic; objects convert to NaN
ToNumber(v) ==
    CASE v.t = "num" -> v
      [] v.t = "null" -> Num(0)
      [] OTHER -> NaN

\* the truthiness of a value
Truthy(v) ==
    CASE v.t = "num" -> v.n # 0
      [] v.t \in {"nan", "undef", "null"} -> FALSE
      [] OTHER -> TRUE

Times2(v) == LET x == ToNumber(v) IN IF x.t = "num" THEN Num(2 * x.n) ELSE NaN

Plus(a, b) ==
    LET x == ToNumber(a)
        y == ToNumber(b)
    IN IF x.t = "num" /\ y.t = "num" THEN Num(x.n + y.n) ELSE NaN

\* 1 - v
Flip(v) == LET x == ToNumber(v) IN IF x.t = "num" THEN Num(1 - x.n) ELSE NaN

-----------------------------------------------------------------------------
(* Property keys.  Index keys are the strings "0", "1", ... *)

IndexKeys == <<"0", "1", "2", "3", "4", "5">>

IsIndexKey(k) == k \in Range(IndexKeys)

\* Number(key) of an index key
KeyNumber(k) == (CHOOSE i \in 1..Len(IndexKeys) : IndexKeys[i] = k) - 1

\* utils.js isNumericKey: !isNaN(Number(key))
isNumericKey(k) == IsIndexKey(k)

NamedKeys == {"x", "y"}


AllKeys == NamedKeys \cup Range(IndexKeys) \cup {"length"}

-----------------------------------------------------------------------------
(* Raw objects: [isArray, elems, fields].  An array keeps its elements in  *)
(* elems (a hole reads as undefined); every other property is in fields.   *)

NoFields == [k \in AllKeys |-> Undefined]

Obj(x, y) == [isArray |-> FALSE, elems |-> <<>>, fields |-> [NoFields EXCEPT !["x"] = x, !["y"] = y]]

Arr(elems) == [isArray |-> TRUE, elems |-> elems, fields |-> NoFields]

\* target[key] on a raw object
RawGet(s, o, k) ==
    LET obj == s.heap[o]
    IN CASE obj.isArray /\ k = "length" -> Num(Len(obj.elems))
         [] obj.isArray /\ IsIndexKey(k) ->
                IF KeyNumber(k) < Len(obj.elems) THEN obj.elems[KeyNumber(k) + 1] ELSE Undefined
         [] OTHER -> obj.fields[k]

\* elems resized to n slots
Resize(elems, n) == [i \in 1..n |-> IF i <= Len(elems) THEN elems[i] ELSE Undefined]

\* target[key] = v on a raw object; an array grows when the index is past its end
RawSet(s, o, k, v) ==
    LET obj == s.heap[o]
    IN CASE obj.isArray /\ k = "length" ->
                IF v.t = "num" /\ v.n >= 0
                THEN [s EXCEPT !.heap[o].elems = Resize(@, v.n)]
                ELSE [s EXCEPT !.err = "RangeError"]
         [] obj.isArray /\ IsIndexKey(k) ->
                [s EXCEPT !.heap[o].elems =
                    [Resize(@, IF KeyNumber(k) < Len(@) THEN Len(@) ELSE KeyNumber(k) + 1)
                        EXCEPT ![KeyNumber(k) + 1] = v]]
         [] OTHER -> [s EXCEPT !.heap[o].fields[k] = v]

\* Object.keys(obj), in order
ObjectKeys(obj) ==
    (IF obj.isArray THEN SubSeq(IndexKeys, 1, Len(obj.elems)) ELSE <<>>) \o <<"x", "y">>

-----------------------------------------------------------------------------
(* The dependency registry.  A dep (a Set of effects) is named by where it *)
(* lives: a RefImpl's dep field, or targetMap.get(target).get(key).        *)

NoDep == [cell |-> 0, obj |-> 0, key |-> ""]
CellDep(c) == [cell |-> c, obj |-> 0, key |-> ""]
KeyDep(o, k) == [cell |-> 0, obj |-> o, key |-> k]

\* targetMap.get(target), an empty Map when there is none
DepsMap(s, o) == IF o \in DOMAIN s.targetMap THEN s.targetMap[o] ELSE <<>>

HasKey(depsMap, k) == \E i \in 1..Len(depsMap) : depsMap[i].key = k

\* depsMap.get(key), the effects in insertion order
MapGet(depsMap, k) ==
    IF HasKey(depsMap, k)
    THEN depsMap[CHOOSE i \in 1..Len(depsMap) : depsMap[i].key = k].dep
    ELSE <<>>

\* the effects of a dep, in insertion order
DepOf(s, d) ==
    CASE d.cell # 0 -> s.cells[d.cell].dep
      [] d.obj # 0 -> MapGet(DepsMap(s, d.obj), d.key)
      [] OTHER -> <<>>

\* (mutation: a read is recorded also when there is no current effect)
TrackingLastEffect(s) == s.effects # <<>>
\* (mutation: the __active flag is not consulted)
TrackingAnyEffect(s) == s.currentEffect # 0
\* currentEffect && currentEffect.__active !== false
Tracking(s) == s.currentEffect # 0 /\ s.effects[s.currentEffect].active

\* the running effect has read dep d (kept with the effect, for the properties)
NoteRead(s, d) == [s EXCEPT !.effects[s.currentEffect].lastReads = @ \cup {d}]

\* if (!dep) depsMap.set(key, (dep = new Set()))
WithKey(depsMap, key) ==
    IF HasKey(depsMap, key) THEN depsMap ELSE Append(depsMap, [key |-> key, dep |-> <<>>])

\* dep.add(currentEffect)
DepAdd(depsMap, key, e) ==
    [i \in 1..Len(depsMap) |->
        IF depsMap[i].key = key THEN [depsMap[i] EXCEPT !.dep = SetAdd(@, e)] ELSE depsMap[i]]

track(s, target, key) ==
    IF ~Tracking(s) THEN s
    ELSE NoteRead([s EXCEPT !.targetMap =
                        (target :> DepAdd(WithKey(DepsMap(s, target), key), key, s.currentEffect)) @@ @],
                  KeyDep(target, key))

RECURSIVE runEffect(_, _)
RECURSIVE TriggerEach(_, _, _)

\* effect !== currentEffect
\* (mutation: the test inverted)
ShouldInvokeInverted(effect, current) == effect = current
ShouldInvoke(effect, current) == effect # current

\* (mutation: a runner already called during the operation is not called
\* again)
InvokeOnce(s, effect, d) ==
    IF ShouldInvoke(effect, s.currentEffect)
          /\ \A i \in 1..Len(s.log) : ~(s.log[i].ev = "run" /\ s.log[i].e = effect)
    THEN runEffect([s EXCEPT !.cause = d], effect)
    ELSE s
\* if (effect !== currentEffect) effect()
Invoke(s, effect, d) ==
    IF ShouldInvoke(effect, s.currentEffect)
    THEN runEffect([s EXCEPT !.cause = d], effect)
    ELSE s

RECURSIVE TriggerAll(_, _, _)
TriggerAll(s, snap, d) ==
    IF snap = <<>> THEN s
    ELSE TriggerAll(Invoke(s, Head(snap), d), Tail(snap), d)

\* (mutation: the loop goes on to the next runner after one has thrown)
TriggerEachOn(s, snap, d) == TriggerAll(s, snap, d)
\* [...dep].forEach(...) over the snapshot snap of dep d
TriggerEach(s, snap, d) ==
    IF snap = <<>> \/ s.err # "none" THEN s
    ELSE TriggerEach(Invoke(s, Head(snap), d), Tail(snap), d)

RECURSIVE TriggerLive(_, _, _)
\* (mutation: dep.forEach(...) over the Set itself, from its element i on)
TriggerLive(s, d, i) ==
    IF s.err # "none" \/ i > Len(DepOf(s, d)) THEN s
    ELSE TriggerLive(Invoke(s, DepOf(s, d)[i], d), d, i + 1)

\* (mutation: no snapshot is taken)
triggerDepsLive(s, d) == IF d = NoDep THEN s ELSE TriggerLive(s, d, 1)
triggerDeps(s, d) ==
    IF d = NoDep THEN s
    ELSE TriggerEach(s, DepOf(s, d), d)

\* (mutation: the subscribers of the other named key are notified)
triggerOther(s, target, key) ==
    triggerDeps(s, KeyDep(target, IF key = "x" THEN "y" ELSE "x"))
trigger(s, target, key) ==
    IF target \notin DOMAIN s.targetMap THEN s
    ELSE triggerDeps(s, IF HasKey(s.targetMap[target], key) THEN KeyDep(target, key) ELSE NoDep)

-----------------------------------------------------------------------------
(* reactive(obj): the proxy of an object, its nested objects wrapped first. *)

\* an entry of the log:
\*   "run"      effect e ran effectFn; fresh: the dep that invoked it is one it
\*              read in its previous run
\*   "reenter"  that run was started by e's own function, still running
\*   "end"      that run is over; fresh: currentEffect is again what it was
\*              when the run started
\*   "cb"       watcher e called its callback with (new, old)
\*   "set"      cell e took value new in place of old
\*   "read"     the function of effect e read a cell's value, new;
\*              fresh: the cell's dep holds e afterwards
\*   "stop"     the disposer of watcher e was called; fresh: e was active
\*   "throw"    an exception was thrown while effect e was currentEffect
\*              (0: none); fresh: no exception was already on its way
Event(ev, e, new, old, fresh) == [ev |-> ev, e |-> e, new |-> new, old |-> old, fresh |-> fresh]

\* throw: nothing in the source catches, the exception unwinds to the caller
Throw(s, name) ==
    [s EXCEPT !.err = name,
              !.log = Append(@, Event("throw", s.currentEffect, Undefined, Undefined,
                                      s.err = "none"))]

Ok(s) == s.err = "none"

Return(s, v) == [s EXCEPT !.ret = v]

\* the raw target of a proxy
TargetOf(s, v) == s.proxies[v.n]

RECURSIVE reactive(_, _)
RECURSIVE ReactiveKeys(_, _, _)

\* target[key] = r.ret, for r the state a call returned in
StoreReturned(r, o, k) == RawSet(r, o, k, r.ret)

\* if (isObject(obj[key])) obj[key] = reactive(obj[key])
ReactiveKey(s, o, k) ==
    IF isObject(RawGet(s, o, k)) THEN StoreReturned(reactive(s, RawGet(s, o, k)), o, k) ELSE s

\* for (const key of Object.keys(obj)) ...
ReactiveKeys(s, o, keys) ==
    IF keys = <<>> THEN s
    ELSE ReactiveKeys(ReactiveKey(s, o, Head(keys)), o, Tail(keys))

\* new Proxy(obj, handler)
\* (mutation: the view is a view of a copy of the object)
NewProxyOfCopy(s, o) ==
    [s EXCEPT !.heap = Append(@, s.heap[o]),
              !.proxies = Append(@, Len(s.heap) + 1),
              !.ret = Proxy(Len(s.proxies) + 1)]
NewProxy(s, o) == [s EXCEPT !.proxies = Append(@, o), !.ret = Proxy(Len(s.proxies) + 1)]

\* (mutation: a view is wrapped in a view of its own)
reactiveAgain(s, v) ==
    IF ~isObject(v) THEN Return(s, v)
    ELSE IF isReactive(v) THEN NewProxy(s, TargetOf(s, v))
    ELSE NewProxy(ReactiveKeys(s, v.n, ObjectKeys(s.heap[v.n])), v.n)
reactive(s, v) ==
    IF ~isObject(v) THEN Return(s, v)
    ELSE IF isReactive(v) THEN Return(s, v)
    ELSE NewProxy(ReactiveKeys(s, v.n, ObjectKeys(s.heap[v.n])), v.n)

\* isObject(value) ? reactive(value) : value
Wrapped(s, v) == IF isObject(v) THEN reactive(s, v) ELSE Return(s, v)

\* handler.get(target, key) for a data property
\* (mutation: the read is not tracked)
HandlerGetUntracked(s, target, key) == Return(s, RawGet(s, target, key))
HandlerGet(s, target, key) == Return(track(s, target, key), RawGet(s, target, key))

\* Number(key) >= target.length, read after target[key] was assigned
PastEnd(s, target, key) == KeyNumber(key) >= RawGet(s, target, "length").n

\* oldValue === value in the set trap
PropSameValue(oldValue, value) == StrictEq(oldValue, value)

\* (mutation: an assignment of length also notifies the subscribers of
\* index 1)
NotifyKeyAndIndex(s, target, key) ==
    IF s.err # "none" THEN s
    ELSE IF key = "length" THEN trigger(trigger(s, target, key), target, "1")
    ELSE trigger(s, target, key)
\* trigger(target, key) after the assignment
NotifyKey(s, target, key) == IF Ok(s) THEN trigger(s, target, key) ELSE s

\* if (isArray && isNumericKey(key)) if (Number(key) >= target.length) trigger(target, 'length')
NotifyLength(s, target, key) ==
    IF Ok(s) /\ s.heap[target].isArray /\ isNumericKey(key) /\ PastEnd(s, target, key)
    THEN trigger(s, target, "length")
    ELSE s

\* handler.set(target, key, value)
HandlerSet(s, target, key, value) ==
    IF PropSameValue(RawGet(s, target, key), value) THEN s
    ELSE NotifyLength(NotifyKey(StoreReturned(Wrapped(s, value), target, key), target, key),
                      target, key)

\* v[key] for any value v
GetProp(s, v, key) ==
    CASE v.t = "proxy" -> HandlerGet(s, TargetOf(s, v), key)
      [] v.t = "raw" -> Return(s, RawGet(s, v.n, key))
      [] v.t \in {"undef", "null"} -> Throw(s, "TypeError")
      [] OTHER -> Return(s, Undefined)

\* v[key] = value for any value v (module code is strict)
SetProp(s, v, key, value) ==
    CASE v.t = "proxy" -> HandlerSet(s, TargetOf(s, v), key, value)
      [] v.t = "raw" -> RawSet(s, v.n, key, value)
      [] OTHER -> Throw(s, "TypeError")

-----------------------------------------------------------------------------
(* Array methods.  A call a.m(...args) on the proxy of an array goes       *)
(* through the function the get trap returns for m: the native method,     *)
(* applied to the raw target, then the notification of the subscribers.    *)

lengthMethods == {"shift", "unshift", "push", "pop", "splice"}
indexMethods == {"reverse", "sort", "shift", "unshift"}
partialIndexMethods == {"fill", "push", "pop", "splice", "copyWithin"}
allArrayMethods == lengthMethods \cup indexMethods \cup partialIndexMethods

Min(a, b) == IF a < b THEN a ELSE b
Max(a, b) == IF a > b THEN a ELSE b

\* args[i], counted from 0
ArgAt(args, i) == IF i < Len(args) THEN args[i + 1] ELSE Undefined

\* a relative index argument of a native method, clamped to 0..len
ToIndex(v, len) ==
    IF v.t # "num" THEN 0
    ELSE IF v.n < 0 THEN Max(len + v.n, 0) ELSE Min(v.n, len)

\* the deleteCount of splice
DeleteCount(args, len) ==
    CASE Len(args) = 0 -> 0
      [] Len(args) = 1 -> len - ToIndex(args[1], len)
      [] OTHER -> Max(0, Min(IF args[2].t = "num" THEN args[2].n ELSE 0,
                             len - ToIndex(args[1], len)))

\* Array.prototype.splice(start, deleteCount, ...items)
Spliced(elems, args) ==
    SubSeq(elems, 1, ToIndex(ArgAt(args, 0), Len(elems)))
    \o SubSeq(args, 3, Len(args))
    \o SubSeq(elems, ToIndex(ArgAt(args, 0), Len(elems)) + DeleteCount(args, Len(elems)) + 1,
              Len(elems))

\* Array.prototype.fill(value, start)
Filled(elems, args) ==
    [i \in 1..Len(elems) |->
        IF i > ToIndex(ArgAt(args, 1), Len(elems)) THEN ArgAt(args, 0) ELSE elems[i]]

\* Array.prototype.copyWithin(target, start): count elements are moved
CopyCount(elems, args) ==
    Min(Len(elems) - ToIndex(ArgAt(args, 1), Len(elems)),
        Len(elems) - ToIndex(ArgAt(args, 0), Len(elems)))

CopiedWithin(elems, args) ==
    [i \in 1..Len(elems) |->
        IF /\ i > ToIndex(ArgAt(args, 0), Len(elems))
           /\ i <= ToIndex(ArgAt(args, 0), Len(elems)) + CopyCount(elems, args)
        THEN elems[i - ToIndex(ArgAt(args, 0), Len(elems)) + ToIndex(ArgAt(args, 1), Len(elems))]
        ELSE elems[i]]

Reversed(elems) == [i \in 1..Len(elems) |-> elems[Len(elems) + 1 - i]]

\* the order of the default sort on the elements the programs use: numbers
\* of one digit by their digit, then objects, undefined last
SortKey(v) ==
    CASE v.t = "num" -> v.n
      [] v.t = "undef" -> 12
      [] v.t \in {"raw", "proxy"} -> 11
      [] OTHER -> 10

\* the position element i takes in the stable sort
SortRank(elems, i) ==
    Cardinality({j \in 1..Len(elems) :
        \/ SortKey(elems[j]) < SortKey(elems[i])
        \/ SortKey(elems[j]) = SortKey(elems[i]) /\ j <= i})

Sorted(elems) ==
    [r \in 1..Len(elems) |-> elems[CHOOSE i \in 1..Len(elems) : SortRank(elems, i) = r]]

\* the elements after the native method
NativeElems(elems, key, args) ==
    CASE key = "push" -> elems \o args
      [] key = "pop" -> IF elems = <<>> THEN elems ELSE SubSeq(elems, 1, Len(elems) - 1)
      [] key = "shift" -> IF elems = <<>> THEN elems ELSE Tail(elems)
      [] key = "unshift" -> args \o elems
      [] key = "splice" -> Spliced(elems, args)
      [] key = "fill" -> Filled(elems, args)
      [] key = "copyWithin" -> CopiedWithin(elems, args)
      [] key = "reverse" -> Reversed(elems)
      [] key = "sort" -> Sorted(elems)

\* what the native method returns, applied to raw array o; the array of
\* removed elements that splice returns is dropped by the programs
NativeResult(elems, o, key, args) ==
    CASE key \in {"push", "unshift"} -> Num(Len(elems) + Len(args))
      [] key = "pop" -> IF elems = <<>> THEN Undefined ELSE elems[Len(elems)]
      [] key = "shift" -> IF elems = <<>> THEN Undefined ELSE elems[1]
      [] key = "splice" -> Undefined
      [] OTHER -> Raw(o)

\* Reflect.apply(Reflect.get(target, key), target, args)
Apply(s, o, key, args) ==
    [s EXCEPT !.heap[o].elems = NativeElems(@, key, args),
              !.ret = NativeResult(s.heap[o].elems, o, key, args)]

\* if (!triggeredEffects.has(effect)) { triggeredEffects.add(effect); effect() }
\* (the length subscribers are added and called without the test)
\* (mutation: triggeredEffects is not consulted)
VisitUnchecked(s, effect, d, checked) ==
    runEffect([s EXCEPT !.triggered = @ \cup {effect}, !.cause = d], effect)
Visit(s, effect, d, checked) ==
    IF checked /\ effect \in s.triggered THEN s
    ELSE runEffect([s EXCEPT !.triggered = @ \cup {effect}, !.cause = d], effect)

RECURSIVE LiveEach(_, _, _, _)
\* dep.forEach(...) over the Set itself: an effect added to it meanwhile is visited
LiveEach(s, d, i, checked) ==
    IF ~Ok(s) \/ i > Len(DepOf(s, d)) THEN s
    ELSE LiveEach(Visit(s, DepOf(s, d)[i], d, checked), d, i + 1, checked)

\* depsMap.get('length')?.forEach(...)
\* (mutation: the length subscribers are not notified)
LengthEffectsNone(s, target, key) == s
LengthEffects(s, target, key) ==
    IF key \in lengthMethods /\ HasKey(DepsMap(s, target), "length")
    THEN LiveEach(s, KeyDep(target, "length"), 1, FALSE)
    ELSE s

\* [...depsMap.entries()].filter(([propKey]) => isNumericKey(propKey)), the keys
numericDeps(s, target) ==
    SelectSeq([i \in 1..Len(DepsMap(s, target)) |-> DepsMap(s, target)[i].key], isNumericKey)

\* the start index the wrapper computes for a partial index method
StartIndex(s, target, key, args) ==
    CASE key = "push" -> Num(Len(s.heap[target].elems) - 1)
      [] key = "pop" -> Num(Len(s.heap[target].elems))
      [] key = "splice" -> ArgAt(args, 0)
      [] key = "fill" -> IF Truthy(ArgAt(args, 1)) THEN ArgAt(args, 1) ELSE Num(0)
      [] key = "copyWithin" -> ArgAt(args, 0)
      [] OTHER -> Num(0)

\* Number(propKey) >= startIndex
\* (mutation: every index counts)
AtOrAfterAlways(propKey, startIndex) == TRUE
AtOrAfter(propKey, startIndex) ==
    ToNumber(startIndex).t = "num" /\ KeyNumber(propKey) >= ToNumber(startIndex).n

RECURSIVE EachNumeric(_, _, _, _, _)
\* numericDeps.forEach(([propKey, dep]) => ...): every key for an index
\* method, the keys at or after startIndex for a partial index method
EachNumeric(s, target, keys, partial, startIndex) ==
    IF keys = <<>> \/ ~Ok(s) THEN s
    ELSE EachNumeric(IF partial => AtOrAfter(Head(keys), startIndex)
                     THEN LiveEach(s, KeyDep(target, Head(keys)), 1, TRUE)
                     ELSE s,
                     target, Tail(keys), partial, startIndex)

\* (mutation: the block for the index methods is left out)
FullIndexNone(s, target, key, keys) == s
\* if (isFullIndexMethods) ...
FullIndex(s, target, key, keys) ==
    IF key \in indexMethods THEN EachNumeric(s, target, keys, FALSE, Num(0)) ELSE s

\* if (isPartialIndexMethods) ...
PartialIndex(s, target, key, args, keys) ==
    IF Ok(s) /\ key \in partialIndexMethods
    THEN EachNumeric(s, target, keys, TRUE, StartIndex(s, target, key, args))
    ELSE s

\* the two index blocks, for s the state the length subscribers left
IndexEffects(s, target, key, args) ==
    PartialIndex(FullIndex(s, target, key, numericDeps(s, target)), target, key, args,
                 numericDeps(s, target))

\* return result, for s the state the notification left and before the state
\* the native method returned in
Result(s, before) == [s EXCEPT !.ret = before.ret, !.triggered = before.triggered]

\* the notification after the native method returned in state s
Notify(s, target, key, args) ==
    IF target \notin DOMAIN s.targetMap THEN s
    ELSE Result(IndexEffects(LengthEffects([s EXCEPT !.triggered = {}], target, key),
                             target, key, args), s)

\* the function the get trap returns for an array method, called with args
Wrapper(s, target, key, args) == Notify(Apply(s, target, key, args), target, key, args)

\* v.key(...args) for any value v
CallMethod(s, v, key, args) ==
    CASE v.t = "proxy" /\ s.heap[TargetOf(s, v)].isArray -> Wrapper(s, TargetOf(s, v), key, args)
      [] v.t = "raw" /\ s.heap[v.n].isArray -> Apply(s, v.n, key, args)
      [] OTHER -> Throw(s, "TypeError")

-----------------------------------------------------------------------------
(* RefImpl *)

\* the RefImpl constructor, for w the state reactive(value) returned in
Construct(w, value) ==
    [w EXCEPT !.cells = Append(@, [rawValue |-> value, value |-> w.ret, dep |-> <<>>]),
              !.ret = Len(w.cells) + 1]

\* new RefImpl(value)
NewRefImpl(s, value) == Construct(Wrapped(s, value), value)

\* (mutation: a ref given a ref makes a new cell of the same value)
refAlwaysNew(s, initialValue) ==
    NewRefImpl(s, IF isRef(initialValue) THEN s.cells[initialValue.n].rawValue ELSE initialValue)
\* ref(initialValue); the cell is returned as its index
ref(s, initialValue) ==
    IF isRef(initialValue) THEN Return(s, initialValue.n) ELSE NewRefImpl(s, initialValue)

\* get value()
RefGet(s, c) ==
    Return(IF Tracking(s)
           THEN NoteRead([s EXCEPT !.cells[c].dep = SetAdd(@, s.currentEffect)], CellDep(c))
           ELSE s,
           s.cells[c].value)

\* this._rawValue === newValue
\* (mutation: the short-circuit dropped)
RefSameValueNever(cell, newValue) == FALSE
RefSameValue(cell, newValue) == StrictEq(cell.rawValue, newValue)

\* this._value = ..., for w the state reactive(newValue) returned in; the log
\* records the value stored and the one replaced
StoreValue(w, c) ==
    [w EXCEPT !.cells[c].value = w.ret,
              !.log = Append(@, Event("set", c, w.ret, w.cells[c].value, TRUE))]

\* set value(newValue)
RefSet(s, c, newValue) ==
    IF RefSameValue(s.cells[c], newValue) THEN s
    ELSE triggerDeps(StoreValue(Wrapped([s EXCEPT !.cells[c].rawValue = newValue], newValue), c),
                     CellDep(c))

-----------------------------------------------------------------------------
(* The functions a program passes to computed and watch.  A function is    *)
(* [body, ret]: statements, then the expression it returns.  Expressions:  *)
(*   const v | cell c (c.value) | comp e (a computed's value) | new (the   *)
(*   callback's first argument) | prop a k (a[k]) | dbl a (a * 2) |        *)
(*   flip a (1 - a) | add a b | if p a b (p ? a : b)                       *)
(* Statements:                                                             *)
(*   set c e (c.value = e) | setprop a k e (a[k] = e) | eval e | throw |   *)
(*   stop w (the disposer of watcher w) | call a m args (a.m(...args), the *)
(*   arguments being values)                                               *)

Const(v) == [op |-> "const", v |-> v]
Cell(c) == [op |-> "cell", c |-> c]
Comp(e) == [op |-> "comp", e |-> e]
NewArg == [op |-> "new"]
Prop(a, k) == [op |-> "prop", a |-> a, k |-> k]
Dbl(a) == [op |-> "dbl", a |-> a]
FlipOf(a) == [op |-> "flip", a |-> a]
Add(a, b) == [op |-> "add", a |-> a, b |-> b]
If(p, a, b) == [op |-> "if", p |-> p, a |-> a, b |-> b]

Set(c, e) == [st |-> "set", c |-> c, e |-> e]
SetPropSt(a, k, e) == [st |-> "setprop", a |-> a, k |-> k, e |-> e]
EvalSt(e) == [st |-> "eval", e |-> e]
ThrowSt == [st |-> "throw"]
StopSt(w) == [st |-> "stop", w |-> w]
CallSt(a, m, args) == [st |-> "call", a |-> a, m |-> m, args |-> args]

Fn(body, ret) == [body |-> body, ret |-> ret]

\* a function that does nothing
NoFn == Fn(<<>>, Const(Undefined))

\* what a running function sees: its arguments, and the effect it belongs to
Env(self, new, old) == [self |-> self, new |-> new, old |-> old]

\* (mutation: the disposer also deletes the runner from the deps of the cells)
StopAndDelete(s, w) ==
    [s EXCEPT !.effects[w].active = FALSE,
              !.cells = [c \in 1..Len(s.cells) |->
                            [s.cells[c] EXCEPT !.dep = SelectSeq(s.cells[c].dep, LAMBDA x : x # w)]]]
\* the disposer watch returns: currentEffect is set aside and put back
Stop(s, w) ==
    [s EXCEPT !.effects[w].active = FALSE,
              !.log = Append(@, Event("stop", w, Undefined, Undefined, s.effects[w].active))]

\* watch has returned the disposer of watcher w: its first run is over
Returned(s, w) == w \in DOMAIN s.effects /\ ~s.effects[w].isFirstRun

\* stop && stop(), for stop the variable the program keeps w's disposer in
StopIfReturned(s, w) == IF Returned(s, w) THEN Stop(s, w) ELSE s

\* the value getter of the object computed returns
ComputedGet(s, e) == RefGet(s, s.effects[e].result)

\* the log entry of a read of cell c that has just returned in state r
Read(r, c, env) ==
    [r EXCEPT !.log = Append(@, Event("read", env.self, r.ret, Undefined,
                                      env.self \in Range(r.cells[c].dep)))]

RECURSIVE Eval(_, _, _)
RECURSIVE Exec(_, _, _)

\* a[k], for r the state a was evaluated in
PropOf(r, k) == IF Ok(r) THEN GetProp(r, r.ret, k) ELSE r

\* a + b, for a's value and the state r b was evaluated in
Sum(a, r) == Return(r, Plus(a, r.ret))

\* the right operand is evaluated after the left one
AddTo(r, b, env) == Sum(r.ret, Eval(r, b, env))

\* p ? a : b, for r the state p was evaluated in
Choose(r, a, b, env) ==
    IF ~Ok(r) THEN r
    ELSE IF Truthy(r.ret) THEN Eval(r, a, env) ELSE Eval(r, b, env)

\* a * 2 and 1 - a, for r the state a was evaluated in
Doubled(r) == Return(r, Times2(r.ret))
Flipped(r) == Return(r, Flip(r.ret))

Eval(s, x, env) ==
    IF ~Ok(s) THEN s
    ELSE CASE x.op = "const" -> Return(s, x.v)
           [] x.op = "cell" -> Read(RefGet(s, x.c), x.c, env)
           [] x.op = "comp" -> Read(ComputedGet(s, x.e), s.effects[x.e].result, env)
           [] x.op = "new" -> Return(s, env.new)
           [] x.op = "prop" -> PropOf(Eval(s, x.a, env), x.k)
           [] x.op = "dbl" -> Doubled(Eval(s, x.a, env))
           [] x.op = "flip" -> Flipped(Eval(s, x.a, env))
           [] x.op = "add" -> AddTo(Eval(s, x.a, env), x.b, env)
           [] x.op = "if" -> Choose(Eval(s, x.p, env), x.a, x.b, env)

\* c.value = e, for r the state e was evaluated in
Assign(r, c) == IF Ok(r) THEN RefSet(r, c, r.ret) ELSE r

\* a[k] = e, for the value of a and the state r e was evaluated in
AssignProp(target, r, k) == IF Ok(r) THEN SetProp(r, target, k, r.ret) ELSE r

\* the object is evaluated before the value
AssignPropOf(r, k, e, env) == AssignProp(r.ret, Eval(r, e, env), k)

\* a.m(...args), for r the state a was evaluated in
CallOn(r, m, args) == IF Ok(r) THEN CallMethod(r, r.ret, m, args) ELSE r

\* one statement
Step(s, st, env) ==
    CASE st.st = "set" -> Assign(Eval(s, st.e, env), st.c)
      [] st.st = "setprop" -> AssignPropOf(Eval(s, st.a, env), st.k, st.e, env)
      [] st.st = "eval" -> Eval(s, st.e, env)
      [] st.st = "throw" -> Throw(s, "Error")
      [] st.st = "stop" -> StopIfReturned(s, st.w)
      [] st.st = "call" -> CallOn(Eval(s, st.a, env), st.m, st.args)

Exec(s, stmts, env) ==
    IF stmts = <<>> \/ ~Ok(s) THEN s
    ELSE Exec(Step(s, Head(stmts), env), Tail(stmts), env)

\* fn(...args)
CallFn(s, fn, env) == Eval(Exec(s, fn.body, env), fn.ret, env)

-----------------------------------------------------------------------------
(* _effect, computed, watch *)

\* callback(newValue, oldValue)
Callback(s, e, newValue, oldValue) ==
    CallFn([s EXCEPT !.log = Append(@, Event("cb", e, newValue, oldValue, TRUE))],
           s.effects[e].cb, Env(e, newValue, oldValue))

\* !isFirstRun || immediate
\* (mutations: the first run always calls; immediate is ignored)
ShouldCallAlways(isFirstRun, immediate) == TRUE
ShouldCallNoImmediate(isFirstRun, immediate) == ~isFirstRun
ShouldCall(isFirstRun, immediate) == ~isFirstRun \/ immediate

\* oldValue = newValue; isFirstRun = false
Remember(s, e, newValue) ==
    IF Ok(s)
    THEN [s EXCEPT !.effects[e].oldValue = newValue, !.effects[e].isFirstRun = FALSE]
    ELSE s

\* if (!isFirstRun || immediate) callback(newValue, oldValue)
\* (mutation: the callback is called only when the value differs)
MaybeCallbackIfChanged(s, e, newValue) ==
    IF ~Ok(s) THEN s
    ELSE IF ShouldCall(s.effects[e].isFirstRun, s.effects[e].immediate)
            /\ newValue # s.effects[e].oldValue
    THEN Callback(s, e, newValue, s.effects[e].oldValue)
    ELSE s
MaybeCallback(s, e, newValue) ==
    IF ~Ok(s) THEN s
    ELSE IF ShouldCall(s.effects[e].isFirstRun, s.effects[e].immediate)
    THEN Callback(s, e, newValue, s.effects[e].oldValue)
    ELSE s

\* the rest of the function after getter() returned in state g
Watched(g, e) == Remember(MaybeCallback(g, e, g.ret), e, g.ret)

\* the function watch passes to _effect
WatchFn(s, e) == Watched(CallFn(s, s.effects[e].getter, Env(e, Undefined, Undefined)), e)

\* result.value = ..., for g the state getter() returned in
StoreResult(g, e) == IF Ok(g) THEN RefSet(g, g.effects[e].result, g.ret) ELSE g

\* the function computed passes to _effect: result.value = getter()
ComputedFn(s, e) == StoreResult(CallFn(s, s.effects[e].getter, Env(e, Undefined, Undefined)), e)

effectFn(s, e) == IF s.effects[e].kind = "watch" THEN WatchFn(s, e) ELSE ComputedFn(s, e)

\* the value currentEffect has after effectFn: the finally block
AfterRun(before) == 0

\* runEffect.__active === false
\* (mutation: the flag is not consulted)
IsStoppedNever(runner) == FALSE
IsStopped(runner) == ~runner.active

\* the effect run is fresh when the dep that caused it is one it read last time
Fresh(s, e) == s.cause = NoDep \/ s.cause \in s.effects[e].lastReads

\* currentEffect = runEffect
Enter(s, e) ==
    [s EXCEPT !.currentEffect = e,
              !.stack = Append(@, e),
              !.log = @ \o <<Event("run", e, Undefined, Undefined, Fresh(s, e))>>
                        \o (IF s.stack # <<>> /\ s.stack[Len(s.stack)] = e
                            THEN <<Event("reenter", e, Undefined, Undefined, Fresh(s, e))>>
                            ELSE <<>>),
              !.effects[e].lastReads = {}]

\* (mutation: a catch block in runEffect, the exception ends there)
LeaveCaught(s, before, e) ==
    [s EXCEPT !.currentEffect = AfterRun(before.currentEffect),
              !.stack = before.stack,
              !.err = "none",
              !.log = Append(@, Event("end", e, Undefined, Undefined,
                                      AfterRun(before.currentEffect) = before.currentEffect))]

\* (mutation: currentEffect is cleared after effectFn returned, not in a
\* finally block)
LeaveOnReturn(s, before, e) ==
    [s EXCEPT !.currentEffect = IF Ok(s) THEN AfterRun(before.currentEffect) ELSE @,
              !.stack = before.stack,
              !.log = Append(@, Event("end", e, Undefined, Undefined,
                                      AfterRun(before.currentEffect) = before.currentEffect))]
\* finally { currentEffect = ... }, for s the state effectFn left and
\* before the state runEffect was called in
Leave(s, before, e) ==
    [s EXCEPT !.currentEffect = AfterRun(before.currentEffect),
              !.stack = before.stack,
              !.log = Append(@, Event("end", e, Undefined, Undefined,
                                      AfterRun(before.currentEffect) = before.currentEffect))]

runEffect(s, e) ==
    IF Len(s.stack) >= MaxDepth THEN Throw(s, "RangeError")
    ELSE IF IsStopped(s.effects[e]) THEN s
    ELSE Leave(effectFn(Enter(s, e), e), s, e)

NewEffect(kind, getter, cb, result, immediate) ==
    [active |-> TRUE, kind |-> kind, getter |-> getter, cb |-> cb, result |-> result,
     immediate |-> immediate, oldValue |-> Undefined, isFirstRun |-> TRUE, lastReads |-> {}]

\* _effect(effectFn): the new runner, run once
effect(s, rec) ==
    Return(runEffect([s EXCEPT !.effects = Append(@, rec), !.cause = NoDep], Len(s.effects) + 1),
           Len(s.effects) + 1)

\* _effect(() => { result.value = getter() }), for r the state ref(null) returned in
ComputedOver(r, getter) == effect(r, NewEffect("computed", getter, NoFn, r.ret, FALSE))

\* computed(getter)
computed(s, getter) == ComputedOver(ref(s, Null), getter)

\* watch(source, callback, {immediate}) with source a function
watch(s, getter, cb, immediate) ==
    effect(s, NewEffect("watch", getter, cb, 0, immediate))

\* typeof source === 'function' ? source : () => source.value
SourceGetter(c) == Fn(<<>>, Cell(c))

-----------------------------------------------------------------------------
(* Public operations as actions.  A public operation starts from the       *)
(* program state with an empty call stack and leaves the state it returns  *)
(* (or throws) with.                                                       *)

St == [cells |-> cells, heap |-> heap, proxies |-> proxies, targetMap |-> targetMap,
       effects |-> effects, currentEffect |-> currentEffect,
       log |-> <<>>, err |-> "none", ret |-> Undefined, stack |-> <<>>, cause |-> NoDep,
       triggered |-> {}]

Commit(r, op) ==
    /\ cells' = r.cells
    /\ heap' = r.heap
    /\ proxies' = r.proxies
    /\ targetMap' = r.targetMap
    /\ effects' = r.effects
    /\ currentEffect' = r.currentEffect
    /\ log' = r.log
    /\ err' = r.err
    /\ last' = op

\* last: the operation, the cell or effect it was applied to, the property
\* key and the value it was given, and what was there before: for a write the
\* value the cell's value getter returned, for a property write the array's
\* length
Op(name, id, k, v, prev) == [op |-> name, id |-> id, k |-> k, v |-> v, prev |-> prev]

Effects == 1..Len(effects)
Computeds == {e \in Effects : effects[e].kind = "computed"}
Watchers == {e \in Effects : effects[e].kind = "watch"}

\* the cells the program created itself (not the result cell of a computed)
UserCells == {c \in 1..Len(cells) : \A e \in Computeds : effects[e].result # c}

\* const d = computed(getter)
NewComputed(getter) ==
    /\ Len(effects) < MaxEffects
    /\ Commit(computed(St, getter), Op("computed", Len(effects) + 1, "", Undefined, Undefined))

\* const stop = watch(source, callback, {immediate})
NewWatch(getter, cb, immediate) ==
    /\ Len(effects) < MaxEffects
    /\ Commit(watch(St, getter, cb, immediate), Op("watch", Len(effects) + 1, "", Undefined, Undefined))

\* c.value = v
Write(c, v) ==
    /\ isObject(v) /\ ~isReactive(v) => Len(proxies) < MaxProxies
    /\ Commit(RefSet(St, c, v), Op("write", c, "", v, cells[c].value))

\* stop(), any number of times once watch has returned it
Dispose(w) ==
    /\ Returned(St, w)
    /\ Commit(Stop(St, w), Op("stop", w, "", Undefined, Undefined))

-----------------------------------------------------------------------------
(* Spec: programs of cells, computeds with getters that only read, and     *)
(* watchers whose callbacks only record their arguments.                   *)

\* the objects the program has made: {x: 1, y: 0}, [1, 2], an object that
\* holds the first one, {x: {x: 1, y: 0}, y: 0}, and {x: 0, y: 1}
InitHeap ==
    <<Obj(Num(1), Num(0)), Arr(<<Num(1), Num(2)>>), Obj(Raw(1), Num(0)), Obj(Num(0), Num(1))>>

\* the values the program stores in its cells: the first cell holds numbers,
\* NaN or an object, the others numbers
ValuesOf(c) == IF c = 1 THEN {Num(0), Num(1), NaN, Raw(1)} ELSE {Num(0), Num(1)}

\* getters over the cells and the computeds created so far
Getters ==
    {Dbl(Cell(1)), Prop(Cell(1), "x"), Add(Cell(1), Cell(2)), If(Cell(1), Cell(2), Const(Num(0)))}
    \cup {Dbl(Comp(e)) : e \in Computeds}
    \cup {Add(Comp(e), Cell(1)) : e \in Computeds}

\* watch sources: a cell, a computed
Sources == {Cell(1)} \cup {Comp(e) : e \in Computeds}

\* the program state before anything is created
Empty ==
    [cells |-> <<>>, heap |-> InitHeap, proxies |-> <<>>, targetMap |-> <<>>,
     effects |-> <<>>, currentEffect |-> 0,
     log |-> <<>>, err |-> "none", ret |-> Undefined, stack |-> <<>>, cause |-> NoDep,
       triggered |-> {}]

RECURSIVE Refs(_, _)
\* ref(vs[1]); ref(vs[2]); ...
Refs(s, vs) == IF vs = <<>> THEN s ELSE Refs(ref(s, Head(vs)), Tail(vs))

\* the variables hold the program state s
StartsIn(s) ==
    /\ cells = s.cells
    /\ heap = s.heap
    /\ proxies = s.proxies
    /\ targetMap = s.targetMap
    /\ effects = s.effects
    /\ currentEffect = s.currentEffect
    /\ log = <<>>
    /\ err = "none"
    /\ last = Op("init", 0, "", Undefined, Undefined)

\* the program has created its cells, holding vs
InitWith(vs) == StartsIn(Refs(Empty, vs))

Init ==
    \E vs \in {f \in [1..MaxCells -> ValuesOf(1)] : \A c \in 1..MaxCells : f[c] \in ValuesOf(c)} :
        InitWith(vs)

Next ==
    \/ \E g \in Getters : NewComputed(Fn(<<>>, g))
    \/ \E g \in Sources, i \in BOOLEAN : NewWatch(Fn(<<>>, g), NoFn, i)
    \/ \E c \in UserCells : \E v \in ValuesOf(c) \cup {cells[c].value} : Write(c, v)
    \/ \E w \in Watchers : Dispose(w)

Spec == Init /\ [][Next]_vars

-----------------------------------------------------------------------------
(* SpecW: programs whose watchers write.  Cells 1 and 2 hold numbers, cell *)
(* 3 holds the object; a watcher's source function may write cells and     *)
(* properties before it returns what it watches.                           *)

TopEnv == Env(0, Undefined, Undefined)

\* c.value[k] = v, outside any effect
SetProperty(c, k, v) ==
    /\ cells[c].value.t = "proxy"
    /\ Commit(Exec(St, <<SetPropSt(Cell(c), k, Const(v))>>, TopEnv),
              Op("setprop", c, k, v, RawGet(St, TargetOf(St, cells[c].value), "length")))

\* the argument that says where a call starts: fill's second, else the first
StartArg(m, args) == IF m = "fill" THEN ArgAt(args, 1) ELSE ArgAt(args, 0)

\* c.value.m(...args), outside any effect; last.v is the start argument,
\* last.prev the array's length before.  (A computed that returns an object wraps it on every run: the
\* programs stop at MaxProxies views.)
Mutate(c, m, args) ==
    /\ cells[c].value.t = "proxy"
    /\ Commit(Exec(St, <<CallSt(Cell(c), m, args)>>, TopEnv),
              Op(m, c, "", StartArg(m, args), RawGet(St, TargetOf(St, cells[c].value), "length")))
    /\ Len(proxies') <= MaxProxies

Bits == {Num(0), Num(1)}

X3 == Prop(Cell(3), "x")

\* the source functions of SpecW
WriterFns ==
    {   \* () => c1.value, () => c2.value
        Fn(<<>>, Cell(1)),
        Fn(<<>>, Cell(2)),
        \* () => { c1.value = 1 - c1.value; return c1.value }
        Fn(<<Set(1, FlipOf(Cell(1)))>>, Cell(1)),
        \* () => { c2.value = c1.value; c1.value = 1 - c1.value; return c1.value }
        Fn(<<Set(2, Cell(1)), Set(1, FlipOf(Cell(1)))>>, Cell(1)),
        \* () => { c2.value = 1; return c1.value }
        Fn(<<Set(2, Const(Num(1)))>>, Cell(1)),
        \* () => { c3.value.x = 1 - c3.value.x; return c3.value.x }
        Fn(<<SetPropSt(Cell(3), "x", FlipOf(X3))>>, X3),
        \* () => { c2.value = c3.value.x; c3.value.x = 1 - c3.value.x; return c3.value.x }
        Fn(<<Set(2, X3), SetPropSt(Cell(3), "x", FlipOf(X3))>>, X3)
    }

InitW == \E a \in Bits, b \in Bits : InitWith(<<a, b, Raw(1)>>)

NextW ==
    \/ \E fn \in WriterFns : NewWatch(fn, NoFn, FALSE)
    \/ \E c \in {1, 2} : \E v \in Bits : Write(c, v)
    \/ \E v \in Bits : SetProperty(3, "x", v)

SpecW == InitW /\ [][NextW]_vars

-----------------------------------------------------------------------------
(* SpecArr: programs over one array.  Cell 1 holds the array; computeds    *)
(* and watchers read its length and its elements, the program assigns to   *)
(* its indices.                                                            *)

\* the array never grows past MaxLen elements
MaxLen == 3

Len1 == Prop(Cell(1), "length")

ArrGetters == {Len1, Prop(Cell(1), "0"), Prop(Cell(1), "2"), Add(Len1, Prop(Cell(1), "0"))}

ArrValues == {Num(1), Num(7)}

InitArr == InitWith(<<Raw(2)>>)

NextArr ==
    \/ \E g \in ArrGetters : NewComputed(Fn(<<>>, g))
    \/ \E g \in ArrGetters : NewWatch(Fn(<<>>, g), NoFn, FALSE)
    \/ \E i \in 1..MaxLen : \E v \in ArrValues : SetProperty(1, IndexKeys[i], v)

SpecArr == InitArr /\ [][NextArr]_vars

-----------------------------------------------------------------------------
(* SpecMut: programs that call the array's methods.  Cell 1 holds the      *)
(* array [1, 2]; computeds read its length, its elements and a property of *)
(* its third element, watchers its length; the program calls push, pop,    *)
(* shift, unshift, splice, fill, copyWithin, reverse and sort on it, with  *)
(* the object {x: 1, y: 0} as the element added.                           *)

\* arr.value[2].x
X2 == Prop(Prop(Cell(1), "2"), "x")

MutGetters == {Len1, Prop(Cell(1), "0"), Prop(Cell(1), "2"), X2}

\* the element the calls add: the object
Added == Raw(1)

\* the start indices the calls are given
Starts == {Num(1), Num(2)}

\* the calls, each <<method, args>>
MutCalls ==
    {<<m, <<>>>> : m \in {"pop", "shift", "reverse", "sort"}}
    \cup {<<m, <<Added>>>> : m \in {"push", "unshift"}}
    \cup {<<"splice", <<st, Num(1)>>>> : st \in Starts}
    \cup {<<"splice", <<Num(1), Num(0), Added>>>>}
    \cup {<<"fill", <<Added, st>>>> : st \in Starts}
    \cup {<<"copyWithin", <<Num(1), Num(0)>>>>}

\* the array in cell c
ArrayOf(c) == heap[proxies[cells[c].value.n]].elems

\* arr.value[2].x = v, outside any effect
SetElementX(v) ==
    Commit(Exec(St, <<SetPropSt(Prop(Cell(1), "2"), "x", Const(v))>>, TopEnv),
           Op("setx", 1, "x", v, Undefined))

InitMut == InitWith(<<Raw(2)>>)

NextMut ==
    \/ \E g \in MutGetters : NewComputed(Fn(<<>>, g)) /\ Len(proxies') <= MaxProxies
    \/ NewWatch(Fn(<<>>, Len1), NoFn, FALSE)
    \/ \E call \in MutCalls :
        /\ Len(NativeElems(ArrayOf(1), call[1], call[2])) <= MaxLen
        /\ Mutate(1, call[1], call[2])
    \/ SetElementX(Num(0))

SpecMut == InitMut /\ [][NextMut]_vars

-----------------------------------------------------------------------------
(* SpecObj: programs over an object that holds an object.  Cell 1 holds    *)
(* {x: {x: 1, y: 0}, y: 0}; computeds and watchers read its y and the x of *)
(* its x; the program writes both, assigns the inner object to x again,    *)
(* and gives the cell another object and the first one back.               *)

\* the views the programs of SpecObj make
MaxViews == 4

\* c.value.y and c.value.x.x
Y1 == Prop(Cell(1), "y")
XX == Prop(Prop(Cell(1), "x"), "x")

ObjGetters == {Y1, XX}

\* c.value.x.x = v, outside any effect
SetNested(c, v) ==
    Commit(Exec(St, <<SetPropSt(Prop(Cell(c), "x"), "x", Const(v))>>, TopEnv),
           Op("setnested", c, "x", v, Undefined))

\* c.value = v for an object v, while the program makes no more than MaxViews views
Reassign(c, v) ==
    /\ Commit(RefSet(St, c, v), Op("write", c, "", v, cells[c].value))
    /\ Len(proxies') <= MaxViews

InitObj == InitWith(<<Raw(3)>>)

NextObj ==
    \/ \E g \in ObjGetters : NewComputed(Fn(<<>>, g))
    \/ \E g \in ObjGetters : NewWatch(Fn(<<>>, g), NoFn, FALSE)
    \/ \E v \in Bits : SetProperty(1, "y", v)
    \/ SetProperty(1, "x", Raw(1)) /\ Len(proxies') <= MaxViews
    \/ \E v \in Bits : SetNested(1, v)
    \/ \E v \in {Raw(3), Raw(4)} : Reassign(1, v)

SpecObj == InitObj /\ [][NextObj]_vars

-----------------------------------------------------------------------------
(* SpecErr: programs whose getters and callbacks throw, and that stop      *)
(* their watchers.  Cell 1 holds 0, 1 or null, cell 2 the array [1, 2],    *)
(* which the program pushes to and writes the first element of.            *)
(* A getter that reads c1.value.x throws a TypeError while c1 holds null;  *)
(* a callback throws an Error, or a TypeError when it is given null; a     *)
(* watcher's source calls the watcher's own disposer.                      *)

\* c2.value.length
Len2 == Prop(Cell(2), "length")

\* c1.value ? c2.value.length : 0
Guarded == If(Cell(1), Len2, Const(Num(0)))

\* the getters of the computeds: () => c1.value and () => c1.value.x
ErrGetters == {Cell(1), Prop(Cell(1), "x")}

\* () => d.value.x, for d the computed made first
OverFirst == Prop(Comp(1), "x")

\* (n) => { throw new Error() } and (n) => { n.x }
ThrowFn == Fn(<<ThrowSt>>, Const(Undefined))
PropFn == Fn(<<EvalSt(Prop(NewArg, "x"))>>, Const(Undefined))

ErrCallbacks == {NoFn, ThrowFn, PropFn}

\* () => { stop && stop(); return c1.value ? c2.value.length : 0 }, for stop
\* the disposer of the watcher w this is the source of
SelfStopping(w) == Fn(<<StopSt(w)>>, Guarded)

\* () => c2.value[0]
First2 == Fn(<<>>, Prop(Cell(2), "0"))

\* the sources of the watcher made as effect w
ErrSources(w) == {SourceGetter(1), SelfStopping(w), First2}

\* the values the program gives cell 1
ErrValues == {Num(0), Num(1), Null}

\* c.value, outside any effect
ReadValue(c) == Commit(RefGet(St, c), Op("read", c, "", Undefined, cells[c].value))

InitErr == InitWith(<<Num(0), Raw(2)>>)

NextErr ==
    \/ \E g \in ErrGetters : NewComputed(Fn(<<>>, g))
    \/ 1 \in Computeds /\ NewComputed(Fn(<<>>, OverFirst))
    \/ \E fn \in ErrSources(Len(effects) + 1) : \E cb \in ErrCallbacks : NewWatch(fn, cb, FALSE)
    \/ 1 \in Computeds /\ \E cb \in ErrCallbacks : NewWatch(Fn(<<>>, Comp(1)), cb, FALSE)
    \/ \E v \in ErrValues : Write(1, v)
    \/ \E c \in {1, 2} : ReadValue(c)
    \/ Len(ArrayOf(2)) < MaxLen /\ Mutate(2, "push", <<Num(1)>>)
    \/ SetProperty(2, "0", Num(0))
    \/ \E w \in Watchers : Dispose(w)

SpecErr == InitErr /\ [][NextErr]_vars

-----------------------------------------------------------------------------
(* SpecRef: programs that pass a cell to ref, give one cell the view       *)
(* another holds, and read outside any effect.  Cell 1 holds the object    *)
(* {x: 1, y: 0}, cell 2 holds 0; computeds and watchers read c2.value and  *)
(* c1.value.x.                                                             *)

RefGetters == {Cell(2), Prop(Cell(1), "x")}

\* const r = ref(c): last.v is the cell r is
RefOf(c) ==
    Commit(ref(St, RefV(c)), Op("ref", c, "", Num(ref(St, RefV(c)).ret), Undefined))

\* r.value = v, for r what the ref(c) before returned: last.id is c, last.prev the cell r is
WriteVia(v) ==
    /\ last.op = "ref"
    /\ Commit(RefSet(St, last.v.n, v), Op("writevia", last.id, "", v, last.v))

\* d.value = c.value, outside any effect
Share(c, d) ==
    Commit(Exec(St, <<Set(d, Cell(c))>>, TopEnv), Op("share", d, "", cells[c].value, cells[d].value))

\* c.value[k], outside any effect
ReadProperty(c, k) ==
    /\ cells[c].value.t = "proxy"
    /\ Commit(Exec(St, <<EvalSt(Prop(Cell(c), k))>>, TopEnv), Op("readprop", c, k, Undefined, Undefined))

InitRef == InitWith(<<Raw(1), Num(0)>>)

NextRef ==
    \/ \E g \in RefGetters : NewComputed(Fn(<<>>, g))
    \/ \E g \in RefGetters : NewWatch(Fn(<<>>, g), NoFn, FALSE)
    \/ \E c \in {1, 2} : RefOf(c)
    \/ \E v \in Bits : WriteVia(v)
    \/ Share(1, 2)
    \/ \E c \in {1, 2} : ReadValue(c)
    \/ \E k \in {"x", "y"} : ReadProperty(1, k)
    \/ \E v \in Bits : SetProperty(1, "x", v)
    \/ \E v \in Bits : Write(2, v)

SpecRef == InitRef /\ [][NextRef]_vars

-----------------------------------------------------------------------------
(* SpecSelf: programs whose computeds and watchers read the array in cell  *)
(* 1 and then call one of its methods.  The array is [1, 2]; the program   *)
(* calls the same methods itself.                                          *)

\* the array of SpecSelf holds no more than MaxGrown elements after an operation
MaxGrown == 6

Idx0 == Prop(Cell(1), "0")

\* the calls, each <<method, args>>: push(1), pop(), reverse(), fill(0, 1)
SelfCalls ==
    {<<"push", <<Num(1)>>>>, <<"pop", <<>>>>, <<"reverse", <<>>>>, <<"fill", <<Num(0), Num(1)>>>>}

\* () => { r; c1.value.m(...args); return r }, for r a read of the array
ReadThenCall(r, call) == Fn(<<EvalSt(r), CallSt(Cell(1), call[1], call[2])>>, r)

SelfFns == {ReadThenCall(r, call) : r \in {Len1, Idx0}, call \in SelfCalls}

InitSelf == InitWith(<<Raw(2)>>)

NextSelf ==
    \/ \E fn \in SelfFns : NewComputed(fn) /\ Len(ArrayOf(1)') <= MaxGrown
    \/ \E fn \in SelfFns : NewWatch(fn, NoFn, FALSE) /\ Len(ArrayOf(1)') <= MaxGrown
    \/ \E call \in SelfCalls : Mutate(1, call[1], call[2]) /\ Len(ArrayOf(1)') <= MaxGrown

SpecSelf == InitSelf /\ [][NextSelf]_vars

-----------------------------------------------------------------------------
(* SpecPush: programs that call the array's methods with numbers, push     *)
(* with one and with two of them.  Cell 1 holds the array [1, 2];          *)
(* computeds and watchers read its first two elements, and its length      *)
(* together with its first element.                                        *)

Idx1 == Prop(Cell(1), "1")

\* arr.value.length + arr.value[0]
LenPlus0 == Add(Len1, Idx0)

PushGetters == {Idx0, Idx1, LenPlus0}

\* the calls, each <<method, args>>
PushCalls ==
    {<<m, <<>>>> : m \in {"pop", "shift", "reverse"}}
    \cup {<<"push", <<Num(7)>>>>, <<"push", <<Num(7), Num(7)>>>>, <<"unshift", <<Num(7)>>>>,
          <<"splice", <<Num(1), Num(1)>>>>, <<"fill", <<Num(7), Num(1)>>>>,
          <<"copyWithin", <<Num(1), Num(0)>>>>}

InitPush == InitWith(<<Raw(2)>>)

NextPush ==
    \/ \E g \in PushGetters : NewComputed(Fn(<<>>, g))
    \/ \E g \in PushGetters : NewWatch(Fn(<<>>, g), NoFn, FALSE)
    \/ \E call \in PushCalls :
        /\ Len(NativeElems(ArrayOf(1), call[1], call[2])) <= MaxLen
        /\ Mutate(1, call[1], call[2])

SpecPush == InitPush /\ [][NextPush]_vars

-----------------------------------------------------------------------------
(* SpecLen: programs that assign the array's length.  Cell 1 holds the     *)
(* array [1, 2]; computeds and watchers read its first two elements, its   *)
(* length, and its length together with its first element.                 *)

LenGetters == {Idx0, Idx1, Len1, LenPlus0}

\* the lengths the program assigns
Lengths == {Num(n) : n \in 0..MaxLen}

InitLen == InitWith(<<Raw(2)>>)

NextLen ==
    \/ \E g \in LenGetters : NewComputed(Fn(<<>>, g))
    \/ \E g \in LenGetters : NewWatch(Fn(<<>>, g), NoFn, FALSE)
    \/ \E n \in Lengths : SetProperty(1, "length", n)
    \/ Len(ArrayOf(1)) < MaxLen /\ Mutate(1, "push", <<Num(7)>>)

SpecLen == InitLen /\ [][NextLen]_vars

-----------------------------------------------------------------------------
(* SpecPass: programs in which an effect becomes a subscriber of a dep     *)
(* while that dep's subscribers are being notified.  Cell 1 holds 0 or 1,  *)
(* cell 2 a flag, cell 3 the array [1, 2].  A watcher's source copies c1   *)
(* or the array's third element into the flag; a computed reads c1, the    *)
(* third element or the array's length only while the flag is set.         *)

Len3 == Prop(Cell(3), "length")
Third == Prop(Cell(3), "2")

\* () => { c2.value = c1.value; return c1.value } and
\* () => { c2.value = c3.value[2]; return c3.value.length }
FlagSetters == {Fn(<<Set(2, Cell(1))>>, Cell(1)), Fn(<<Set(2, Third)>>, Len3)}

\* () => c2.value ? r : 0, for r one of c1.value, c3.value[2], c3.value.length
Flagged(r) == Fn(<<>>, If(Cell(2), r, Const(Num(0))))

FlagReaders == {Flagged(r) : r \in {Cell(1), Third, Len3}}

InitPass == InitWith(<<Num(0), Num(0), Raw(2)>>)

NextPass ==
    \/ \E fn \in FlagReaders : NewComputed(fn)
    \/ \E fn \in FlagSetters : NewWatch(fn, NoFn, FALSE)
    \/ \E v \in Bits : Write(1, v)
    \/ Write(2, Num(0))
    \/ SetProperty(3, "2", Num(1))
    \/ \E m \in {"push", "pop"} :
        /\ Len(NativeElems(ArrayOf(3), m, <<Num(1)>>)) <= MaxLen
        /\ Mutate(3, m, <<Num(1)>>)

SpecPass == InitPass /\ [][NextPass]_vars

-----------------------------------------------------------------------------
(* SpecTwin: programs with two cells made from one object, {x: 1, y: 0}.   *)
(* Computeds and watchers read x and y through either cell's view, the     *)
(* program writes them through either.                                     *)

TwinGetters == {Prop(Cell(c), k) : c \in {1, 2}, k \in {"x", "y"}}

InitTwin == InitWith(<<Raw(1), Raw(1)>>)

NextTwin ==
    \/ \E g \in TwinGetters : NewComputed(Fn(<<>>, g))
    \/ \E g \in TwinGetters : NewWatch(Fn(<<>>, g), NoFn, FALSE)
    \/ \E c \in {1, 2} : \E k \in {"x", "y"} : \E v \in Bits : SetProperty(c, k, v)

SpecTwin == InitTwin /\ [][NextTwin]_vars

-----------------------------------------------------------------------------
(* SpecCb: programs of two cells and watchers of one cell each whose       *)
(* callbacks read the other cell, copy the new value into the other cell,  *)
(* or call the disposer of another watcher.                                *)

\* (n) => { d.value }
ReadFn(d) == Fn(<<EvalSt(Cell(d))>>, Const(Undefined))

\* (n) => { d.value = n }
CopyFn(d) == Fn(<<Set(d, NewArg)>>, Const(Undefined))

\* (n) => { stop && stop() }, for stop the disposer of watcher w
StopFn(w) == Fn(<<StopSt(w)>>, Const(Undefined))

\* the other of the two cells, and the watcher the callback of watcher w stops
OtherCell(c) == 3 - c
OtherWatcher(w) == IF w = 1 THEN 2 ELSE 1

\* the callbacks of the watcher of cell c made as effect w
Callbacks(c, w) == {NoFn, ReadFn(OtherCell(c)), CopyFn(OtherCell(c)), StopFn(OtherWatcher(w))}

InitCb == InitWith(<<Num(0), Num(0)>>)

NextCb ==
    \/ \E c \in {1, 2} : \E cb \in Callbacks(c, Len(effects) + 1) :
        NewWatch(SourceGetter(c), cb, FALSE)
    \/ \E c \in {1, 2} : \E v \in Bits : Write(c, v)
    \/ \E w \in Watchers : Dispose(w)

SpecCb == InitCb /\ [][NextCb]_vars

-----------------------------------------------------------------------------
(* SpecGraph: programs whose getters and callbacks only read.  Cells 1 and *)
(* 2 hold 0 or 1; a computed reads c1, or c1 only while c2 is set, or a    *)
(* computed and c1; a watcher watches c1, a computed, or the sum of a      *)
(* computed and c1, and its callback does nothing or reads c2.             *)

\* c2.value ? c1.value : 0
Gated == If(Cell(2), Cell(1), Const(Num(0)))

GraphGetters ==
    {Dbl(Cell(1)), Gated} \cup {Add(Comp(e), Cell(1)) : e \in Computeds}

GraphSources ==
    {Cell(1)} \cup {Comp(e) : e \in Computeds} \cup {Add(Comp(e), Cell(1)) : e \in Computeds}

InitGraph == \E a, b \in Bits : InitWith(<<a, b>>)

NextGraph ==
    \/ \E g \in GraphGetters : NewComputed(Fn(<<>>, g))
    \/ \E g \in GraphSources : \E cb \in {NoFn, ReadFn(2)} : NewWatch(Fn(<<>>, g), cb, FALSE)
    \/ \E c \in {1, 2} : \E v \in Bits : Write(c, v)

SpecGraph == InitGraph /\ [][NextGraph]_vars

-----------------------------------------------------------------------------
(* What the properties read off the state. *)

\* the log's entries of one kind about e
Events(kind, e) == SelectSeq(log, LAMBDA ev : ev.ev = kind /\ ev.e = e)

\* the (new, old) pairs watcher w's callback was called with, in order
Calls(w) == [i \in 1..Len(Events("cb", w)) |-> <<Events("cb", w)[i].new, Events("cb", w)[i].old>>]

\* the values cell c took, in order
Stored(c) == [i \in 1..Len(Events("set", c)) |-> Events("set", c)[i].new]

\* effect e ran during the last operation
Ran(e) == Len(Events("run", e)) > 0

Primitive(v) == ~isObject(v)

RECURSIVE Ideal(_)
\* an expression evaluated on the current cell values, a computed standing
\* for its getter
Ideal(x) ==
    CASE x.op = "const" -> x.v
      [] x.op = "cell" -> cells[x.c].value
      [] x.op = "comp" -> Ideal(effects[x.e].getter.ret)
      [] x.op = "prop" ->
            LET v == Ideal(x.a)
            IN IF v.t = "proxy" THEN RawGet(St, proxies[v.n], x.k) ELSE Undefined
      [] x.op = "dbl" -> Times2(Ideal(x.a))
      [] x.op = "flip" -> Flip(Ideal(x.a))
      [] x.op = "add" -> Plus(Ideal(x.a), Ideal(x.b))
      [] x.op = "if" -> IF Truthy(Ideal(x.p)) THEN Ideal(x.a) ELSE Ideal(x.b)

\* the value a watch source has now
SourceValue(w) == Ideal(effects[w].getter.ret)

\* watcher w watches cell c itself: watch(c, callback)
WatchesCell(w, c) == effects[w].kind = "watch" /\ effects[w].getter = SourceGetter(c)

\* effect e ran during the operation that left the log lg
RanIn(lg, e) == \E i \in 1..Len(lg) : lg[i].ev = "run" /\ lg[i].e = e

\* the raw object behind the view in cell 1
Target1 == proxies[cells[1].value.n]

\* the raw object a property write goes to: the object in cell 1, or the
\* object its x holds
WriteTarget(op) ==
    IF op.op = "setnested"
    THEN IF RawGet(St, Target1, "x").t = "proxy" THEN proxies[RawGet(St, Target1, "x").n] ELSE 0
    ELSE Target1

\* the subscribers of the key a property write goes to
WriteDep(op) ==
    IF WriteTarget(op) = 0 THEN {} ELSE Range(MapGet(DepsMap(St, WriteTarget(op)), op.k))

\* v is the value stored, or the raw object the stored view is a view of
Identical(stored, v) ==
    \/ stored = v /\ v.t # "nan"
    \/ stored.t = "proxy" /\ v.t = "raw" /\ proxies[stored.n] = v.n

\* the calls of watcher w's callback and the number of its runs during the
\* operation that left the log lg
CallsIn(lg, w) == SelectSeq(lg, LAMBDA ev : ev.ev = "cb" /\ ev.e = w)
RunsIn(lg, w) == Len(SelectSeq(lg, LAMBDA ev : ev.ev = "run" /\ ev.e = w))

\* the indices of the array in cell 1 effect e is a subscriber of, and whether it is
\* a subscriber of its length
IndicesOf(e) == {k \in Range(IndexKeys) : e \in Range(MapGet(DepsMap(St, Target1), k))}
OnLength(e) == e \in Range(MapGet(DepsMap(St, Target1), "length"))

-----------------------------------------------------------------------------
(* C1: after every operation (creation, write, disposal) has returned,     *)
(* every computed's value equals its getter evaluated on the current cell  *)
(* values, through chains of computeds and over several cells.             *)
C1_ComputedsConsistent ==
    \A e \in Computeds : cells[effects[e].result].value = Ideal(effects[e].getter.ret)

\* a write re-evaluated a computed that reads another computed and a cell
C1_Witness ==
    /\ last.op = "write"
    /\ \E e \in Computeds :
        /\ effects[e].getter.ret.op = "add"
        /\ effects[e].getter.ret.a.op = "comp"
        /\ Ran(e)
        /\ cells[effects[e].result].value = Num(3)

(* C2 as written: writing to a cell the primitive it holds invokes no      *)
(* subscriber and changes nothing.                                         *)
C2_SamePrimitiveSilent ==
    (last.op = "write" /\ Primitive(last.prev) /\ last.v = last.prev)
    => /\ \A e \in Effects : ~Ran(e)
       /\ cells[last.id].value = last.prev

(* C2, amended: writing to a cell the primitive it holds, other than NaN,  *)
(* invokes no subscriber and leaves every cell, every computed and every   *)
(* effect as it was.                                                       *)
C2_SameNonNaNSilent ==
    [][(last'.op = "write" /\ Primitive(last'.prev) /\ last'.v = last'.prev
            /\ last'.v.t # "nan")
        => (log' = <<>> /\ cells' = cells /\ effects' = effects)]_vars

\* the same number was written to a cell that a computed and a watcher read
C2_Witness ==
    /\ last.op = "write"
    /\ last.v = last.prev
    /\ last.v.t = "num"
    /\ \E e \in Computeds : e \in Range(cells[last.id].dep)
    /\ \E w \in Watchers : w \in Range(cells[last.id].dep)

(* C3 (its case of a wrappable value): writing to a cell the very value    *)
(* its value getter returns invokes no subscriber of the cell.             *)
C3_IdenticalWriteSilent ==
    (last.op = "write" /\ isObject(last.prev) /\ last.v = last.prev)
    => \A e \in Effects : ~Ran(e)

(* C4: a watcher created without immediate does not call its callback      *)
(* while it is created; a write that changes the cell it watches from v0   *)
(* to v1 calls the callback exactly once, with (v1, v0); no other write    *)
(* calls it.                                                               *)
C4_LazyWatcher ==
    /\ (last.op = "watch" /\ ~effects[last.id].immediate) => Calls(last.id) = <<>>
    /\ \A w \in Watchers :
        (/\ last.op = "write"
         /\ effects[w].active
         /\ WatchesCell(w, last.id))
        => Calls(w) = IF \/ cells[last.id].value # last.prev
                         \/ Len(Events("set", last.id)) > 0
                      THEN <<<<cells[last.id].value, last.prev>>>>
                      ELSE <<>>

\* a write changed the cell of a watcher created without immediate
C4_Witness ==
    /\ last.op = "write"
    /\ last.prev = Num(1)
    /\ \E w \in Watchers :
        /\ WatchesCell(w, last.id)
        /\ ~effects[w].immediate
        /\ Calls(w) = <<<<Num(0), Num(1)>>>>

(* C5: a watcher created with immediate calls its callback exactly once    *)
(* while it is created, with (the source's value, undefined); afterwards   *)
(* every value its source takes is passed to one more call, in order.      *)
C5_ImmediateWatcher ==
    /\ (last.op = "watch" /\ effects[last.id].immediate)
        => Calls(last.id) = <<<<SourceValue(last.id), Undefined>>>>
    /\ \A w \in Watchers :
        (/\ last.op = "write"
         /\ effects[w].active
         /\ effects[w].immediate)
        => LET src == effects[w].getter.ret
               c == IF src.op = "cell" THEN src.c ELSE effects[src.e].result
           IN [i \in 1..Len(Calls(w)) |-> Calls(w)[i][1]] = Stored(c)

\* an immediate watcher of a computed was called by a write
C5_Witness ==
    /\ last.op = "write"
    /\ \E w \in Watchers :
        /\ effects[w].immediate
        /\ effects[w].getter.ret.op = "comp"
        /\ Len(Calls(w)) = 1
        /\ Calls(w)[1][1] = SourceValue(w)
        /\ Calls(w)[1][1] # Calls(w)[1][2]

(* C6: once a watcher's disposer has been called, no write runs its getter *)
(* or its callback, and the written cell still stores and returns what was *)
(* written.                                                                *)
C6_DisposedSilent ==
    \A w \in Watchers :
        (last.op = "write" /\ ~effects[w].active)
        => /\ ~Ran(w)
           /\ Calls(w) = <<>>
           /\ cells[last.id].rawValue = last.v
           /\ Primitive(last.v) => cells[last.id].value = last.v
           /\ isObject(last.v) => /\ cells[last.id].value.t = "proxy"
                                  /\ last.v.t = "raw" => proxies[cells[last.id].value.n] = last.v.n

\* a write changed a cell that a disposed watcher had subscribed to
C6_Witness ==
    /\ last.op = "write"
    /\ last.v # last.prev
    /\ \E w \in Watchers :
        /\ ~effects[w].active
        /\ w \in Range(cells[last.id].dep)

(* C9: an effect is re-run by a write only when the cell or property       *)
(* written is one it read during its most recent run.                      *)
C9_OnlyFreshDependencies ==
    \A i \in 1..Len(log) : log[i].ev = "run" => log[i].fresh

(* C7: a computation that reads and writes the same cell or property is    *)
(* not re-invoked by its own write, whatever else it writes first, and     *)
(* its runs never exhaust the stack.                                       *)
C7_NoSelfReinvocation ==
    /\ \A i \in 1..Len(log) : log[i].ev # "reenter"
    /\ err # "RangeError"

(* C8: when an effect run that started inside another effect's run is      *)
(* over, currentEffect is the enclosing effect again, and every cell the   *)
(* enclosing function reads afterwards has it among its subscribers.       *)
C8_TrackerRestored ==
    \A i \in 1..Len(log) :
        /\ log[i].ev = "end" => log[i].fresh
        /\ (log[i].ev = "read" /\ log[i].e # 0) => log[i].fresh

(* C10: an assignment through the array's proxy to an index at or past its *)
(* length runs every subscriber of its 'length', so a computed that reads  *)
(* the length equals the real length once the assignment has returned.     *)
C10_GrowthNotifiesLength ==
    (/\ last.op = "setprop"
     /\ IsIndexKey(last.k)
     /\ KeyNumber(last.k) >= last.prev.n)
    => /\ \A e \in Range(MapGet(DepsMap(St, proxies[cells[last.id].value.n]), "length")) : Ran(e)
       /\ \A e \in Computeds :
            effects[e].getter.ret = Len1 => cells[effects[e].result].value = Ideal(Len1)

(* C11: when push, pop, shift, unshift or splice on the array in a cell    *)
(* has returned, every computed and watcher that reads the array's length  *)
(* has been re-run: such a computed holds the array's length, and such a   *)
(* watcher's last call was given it.                                       *)
C11_LengthFollowsMutation ==
    last.op \in lengthMethods
    => \A e \in Effects :
         effects[e].getter.ret = Len1
         => /\ Ran(e)
            /\ e \in Computeds => cells[effects[e].result].value = Num(Len(ArrayOf(1)))
            /\ e \in Watchers =>
                 /\ Calls(e) # <<>>
                 /\ Calls(e)[Len(Calls(e))] = <<Num(Len(ArrayOf(1))), last.prev>>

\* push made the array longer under a computed and a watcher of its length
C11_Witness ==
    /\ last.op = "push"
    /\ Len(ArrayOf(1)) = 3
    /\ \E e \in Computeds :
        effects[e].getter.ret = Len1 /\ cells[effects[e].result].value = Num(3)
    /\ \E w \in Watchers : Calls(w) = <<<<Num(3), Num(2)>>>>

(* C12: a call of splice, fill or copyWithin with start index s that       *)
(* returns normally runs no effect that is a subscriber of indices below s *)
(* only (and not of length), and runs every effect that is a subscriber of *)
(* an index at or after s.                                                 *)
C12_SuffixOnly ==
    [][(last'.op \in {"splice", "fill", "copyWithin"} /\ err' = "none")
        => \A e \in Effects :
             /\ (/\ IndicesOf(e) # {}
                 /\ ~OnLength(e)
                 /\ \A k \in IndicesOf(e) : KeyNumber(k) < last'.v.n)
                => ~RanIn(log', e)
             /\ (\E k \in IndicesOf(e) : KeyNumber(k) >= last'.v.n) => RanIn(log', e)]_vars

\* splice(1, 1) left a computed of index 0 alone and re-ran one of index 2
C12_Witness ==
    /\ last.op = "splice"
    /\ last.v = Num(1)
    /\ err = "none"
    /\ \E e \in Computeds : effects[e].getter.ret = Prop(Cell(1), "0") /\ ~Ran(e)
    /\ \E e \in Computeds : effects[e].getter.ret = Prop(Cell(1), "2") /\ Ran(e)

(* C13: an object read out of a tracked array is itself a view, so after a *)
(* write to property x of the array's third element a computed over that   *)
(* property holds the value written.                                       *)
C13_InsertedObjectsObserved ==
    (last.op = "setx" /\ err = "none")
    => \A e \in Computeds :
         (effects[e].getter.ret = X2 /\ cells[effects[e].result].value # Null)
         => cells[effects[e].result].value = last.v

(* C14: a write to a property of a tracked object of the value the         *)
(* property holds (the same primitive, or the raw object that was assigned *)
(* to it before) replaces nothing and runs no effect.                      *)
C14_IdenticalPropertyWriteSilent ==
    [][(last'.op = "setprop" /\ Identical(RawGet(St, Target1, last'.k), last'.v))
        => /\ \A e \in Effects : ~RanIn(log', e)
           /\ heap' = heap]_vars

(* C15: whenever a property write at either depth, or giving the cell      *)
(* another object, changes what a computation over the cell's object       *)
(* reads, the computation has re-run when the write returns: a computed    *)
(* holds the new value, a watcher's last call was given (new, old).        *)
C15_ObjectReadersFollow ==
    [][\A e \in Effects :
        (err' = "none" /\ Ideal(effects[e].getter.ret)' # Ideal(effects[e].getter.ret))
        => /\ RanIn(log', e)
           /\ e \in Computeds =>
                cells'[effects[e].result].value = Ideal(effects[e].getter.ret)'
           /\ e \in Watchers =>
                /\ CallsIn(log', e) # <<>>
                /\ CallsIn(log', e)[Len(CallsIn(log', e))].new = Ideal(effects[e].getter.ret)'
                /\ CallsIn(log', e)[Len(CallsIn(log', e))].old = Ideal(effects[e].getter.ret)]_vars

\* the cell was given the other object, and a write to the new object's y
\* re-ran a computed and a watcher of y
C15_Witness ==
    /\ last.op = "setprop"
    /\ last.k = "y"
    /\ cells[1].rawValue = Raw(4)
    /\ \E e \in Computeds :
        effects[e].getter.ret = Y1 /\ Ran(e) /\ cells[effects[e].result].value = Num(0)
    /\ \E w \in Watchers : effects[w].getter.ret = Y1 /\ Calls(w) = <<<<Num(0), Num(1)>>>>

(* C16: a write to property p of a tracked object that is no array, made   *)
(* outside any effect, runs the effects that were subscribers of (object,  *)
(* p) and no other: none runs when the value is the one stored, each of    *)
(* them otherwise.                                                         *)
C16_ExactlyTheKeysSubscribers ==
    [][(last'.op \in {"setprop", "setnested"} /\ err' = "none")
        => \A e \in Effects :
             /\ RanIn(log', e) => e \in WriteDep(last')
             /\ (e \in WriteDep(last') /\ heap' # heap) => RunsIn(log', e) = 1]_vars

\* a write to y ran the watcher of y and not the watcher of x.x
C16_Witness ==
    /\ last.op = "setprop"
    /\ last.k = "y"
    /\ \E w \in Watchers : effects[w].getter.ret = Y1 /\ Ran(w)
    /\ \E w \in Watchers : effects[w].getter.ret = XX /\ ~Ran(w)

(* C17: every run of an existing watcher calls its callback exactly once,  *)
(* also when the getter's result is what it was, with (the getter's new    *)
(* result, its result in the watcher's previous run).                      *)
C17_CallbackOnEveryRerun ==
    [][\A w \in Watchers :
        /\ Len(CallsIn(log', w)) = RunsIn(log', w)
        /\ \A i \in 1..Len(CallsIn(log', w)) :
            /\ CallsIn(log', w)[i].old =
                 IF i = 1 THEN effects[w].oldValue ELSE CallsIn(log', w)[i - 1].new
            /\ i = Len(CallsIn(log', w)) =>
                 /\ CallsIn(log', w)[i].new = Ideal(effects[w].getter.ret)'
                 /\ effects'[w].oldValue = CallsIn(log', w)[i].new]_vars

\* the inner object was assigned to x again: the watcher of x.x was called
\* with the value it had
C17_Witness ==
    /\ last.op = "setprop"
    /\ last.k = "x"
    /\ \E w \in Watchers : Calls(w) = <<<<Num(1), Num(1)>>>>


-----------------------------------------------------------------------------
(* Errors and disposal, checked on SpecErr.                                *)

\* the exceptions thrown during the last operation, as log entries
Thrown == SelectSeq(log, LAMBDA ev : ev.ev = "throw")

(* C18: after every public operation, whether it returned or threw,        *)
(* currentEffect is empty, and a read of a cell's value outside any effect *)
(* adds nothing to any dep.                                                *)
C18_TrackerEmptyAfterOperation ==
    /\ [](currentEffect = 0)
    /\ [][last'.op = "read" => UNCHANGED <<cells, targetMap, effects>>]_vars

\* a write threw out of an effect's getter or callback
C18_Witness ==
    /\ last.op = "write"
    /\ err # "none"
    /\ \E i \in 1..Len(Thrown) : Thrown[i].e # 0
    /\ currentEffect = 0

\* the effects whose run was going on when the log's entry i was made
RunningAt(i) ==
    {e \in Effects :
        \E j \in 1..i : /\ log[j].ev = "run" /\ log[j].e = e
                        /\ \A k \in j..i : ~(log[k].ev = "end" /\ log[k].e = e)}

(* C19: an exception thrown in a getter or callback during an operation    *)
(* reaches the operation's caller: the operation throws, and after the     *)
(* exception was thrown no getter runs, no callback is called and no cell  *)
(* takes a value, every run that was going on only ends.                   *)
C19_ErrorReachesCaller ==
    \A i \in 1..Len(log) :
        log[i].ev = "throw" =>
            /\ err # "none"
            /\ \A j \in (i + 1)..Len(log) : log[j].ev = "end"

\* a write to cell 1 ran the first computed, whose new value ran a getter or
\* a callback that threw: the exception went through both runs
C19_Witness ==
    /\ last.op = "write"
    /\ err # "none"
    /\ \E i \in 1..Len(log) :
        /\ log[i].ev = "throw"
        /\ log[i].e = 2
        /\ RunningAt(i) = {1, 2}

\* the deps that hold effect w, among the cells cs and the deps maps of tm
DepsHolding(cs, tm, w) ==
    {CellDep(c) : c \in {c \in 1..Len(cs) : w \in Range(cs[c].dep)}}
    \cup {KeyDep(d[1], d[2]) :
            d \in {d \in (DOMAIN tm) \X AllKeys : w \in Range(MapGet(tm[d[1]], d[2]))}}

(* C20: a watcher that is stopped stays stopped; no operation runs its     *)
(* getter or calls its callback; a watcher that is stopped when an         *)
(* operation ends, by an earlier call of its disposer or by a call at the  *)
(* start of its own source, was added to no dep during it; and a call of   *)
(* the disposer of a stopped watcher changes nothing.                      *)
C20_StoppedForGood ==
    [][/\ \A w \in Watchers :
            /\ ~effects[w].active =>
                /\ ~effects'[w].active
                /\ ~RanIn(log', w)
                /\ CallsIn(log', w) = <<>>
            /\ ~effects'[w].active =>
                DepsHolding(cells', targetMap', w) \subseteq DepsHolding(cells, targetMap, w)
       /\ (last'.op = "stop" /\ ~effects[last'.id].active) =>
            UNCHANGED <<cells, heap, proxies, targetMap, effects, currentEffect>>]_vars

\* a write to cell 1 invoked a watcher stopped before, which did not run, and
\* ran a watcher that stopped itself and then read the array's length, which
\* it had not read before: no dep of the array holds it
C20_Witness ==
    /\ last.op = "write"
    /\ Truthy(last.v)
    /\ \E w \in Watchers :
        /\ ~effects[w].active
        /\ w \in Range(cells[1].dep)
        /\ ~Ran(w)
    /\ \E w \in Watchers :
        /\ effects[w].getter = SelfStopping(w)
        /\ Ran(w)
        /\ ~effects[w].active
        /\ DepsHolding(cells, targetMap, w) = {CellDep(1)}

-----------------------------------------------------------------------------
(* Identity of cells and views, and reads outside any effect, checked on   *)
(* SpecRef.                                                                *)

\* the active effects among the subscribers of cell c
ActiveOn(c) == {e \in Range(cells[c].dep) : effects[e].active}

(* C21: ref(c) for a cell c returns c itself and makes no cell; a write    *)
(* through what it returned is read through c, and runs the subscribers of *)
(* c when it changes c's value.                                            *)
C21_RefOfRefIsSameCell ==
    [][/\ last'.op = "ref" => (last'.v = Num(last'.id) /\ UNCHANGED cells)
       /\ last'.op = "writevia" =>
            /\ cells'[last'.id].value = last'.v
            /\ cells[last'.id].value # last'.v => \A e \in ActiveOn(last'.id) : RanIn(log', e)]_vars

\* a write through ref(c2) changed c2.value and ran an effect that reads it
C21_Witness ==
    /\ last.op = "writevia"
    /\ last.id = 2
    /\ last.prev = Num(2)
    /\ cells[2].value = last.v
    /\ \E i \in 1..Len(log) : log[i].ev = "set" /\ log[i].e = 2
    /\ \E e \in Effects : Ran(e)

(* C22: reactive of a view is that view: a cell given the view another     *)
(* cell holds holds the same view afterwards, and no view was made.        *)
C22_WrapIdempotent ==
    [][(last'.op = "share" /\ isReactive(cells[1].value)) =>
            /\ reactive(St, cells[1].value).ret = cells[1].value
            /\ cells'[2].value = cells[1].value
            /\ cells'[2].rawValue = cells[1].value
            /\ proxies' = proxies]_vars

\* cell 2 took the view cell 1 holds in place of a number
C22_Witness ==
    /\ last.op = "share"
    /\ isReactive(cells[1].value)
    /\ cells[2].value = cells[1].value
    /\ last.prev.t = "num"

(* C23: reading a cell's value or a property of a view outside any effect  *)
(* leaves every dep of every cell and of every object as it was.           *)
C23_UntrackedReadChangesNoDep ==
    [][last'.op \in {"read", "readprop"} =>
            /\ \A c \in 1..Len(cells) : cells'[c].dep = cells[c].dep
            /\ Len(cells') = Len(cells)
            /\ targetMap' = targetMap]_vars

\* c1.value.y was read outside any effect while effects are subscribers of
\* cell 1 and of x: y has no dep
C23_Witness ==
    /\ last.op = "readprop"
    /\ last.k = "y"
    /\ currentEffect = 0
    /\ cells[1].dep # <<>>
    /\ HasKey(DepsMap(St, Target1), "x")
    /\ ~HasKey(DepsMap(St, Target1), "y")

-----------------------------------------------------------------------------
(* Notification by the array methods, checked on SpecSelf, SpecPush and    *)
(* SpecMut.                                                                *)

\* the log's entries of kind for any effect
AllEvents(kind) == SelectSeq(log, LAMBDA ev : ev.ev = kind)

(* C24: no effect that calls a method of the array it read is invoked by   *)
(* that call while it runs, and no operation ends in a stack overflow.     *)
C24_MethodSkipsRunningEffect ==
    /\ AllEvents("reenter") = <<>>
    /\ err # "RangeError"

\* the element at index key k of the array in cell 1
ElementAt(k) == RawGet(St, Target1, k)

\* the active effects among the subscribers of key k of the array in cell 1
ActiveOnKey(k) == {e \in Range(MapGet(DepsMap(St, Target1), k)) : effects[e].active}

(* C25: after push, pop, splice, fill or copyWithin returned, every active *)
(* subscriber of an index whose element is not what it was has run.        *)
C25_ChangedIndexNotified ==
    [][(last'.op \in partialIndexMethods /\ err' = "none") =>
            \A k \in Range(IndexKeys) :
                ElementAt(k)' # ElementAt(k) => \A e \in ActiveOnKey(k) : RanIn(log', e)]_vars

(* C26: pop runs no effect that is not a subscriber of the array's length. *)
C26_PopNotifiesLengthOnly ==
    [][last'.op = "pop" => \A e \in Effects : RanIn(log', e) => OnLength(e)]_vars

(* C27: after reverse, sort, shift or unshift returned, every subscriber   *)
(* of an index of the array has run; after shift and unshift every         *)
(* subscriber of its length has run as well; reverse and sort run no       *)
(* effect that is a subscriber of no index.                                *)
C27_IndexMethodsNotifyEveryIndex ==
    [][(last'.op \in indexMethods /\ err' = "none") =>
            \A e \in Effects :
                /\ IndicesOf(e) # {} => RanIn(log', e)
                /\ (last'.op \in {"shift", "unshift"} /\ OnLength(e)) => RanIn(log', e)
                /\ (last'.op \in {"reverse", "sort"} /\ IndicesOf(e) = {}) => ~RanIn(log', e)]_vars

\* reverse ran a subscriber of index 2, which is past the array's end, and
\* did not run a subscriber of the length
C27_Witness ==
    /\ last.op = "reverse"
    /\ Len(ArrayOf(1)) <= 2
    /\ \E e \in Effects : IndicesOf(e) = {"2"} /\ Ran(e)
    /\ \E e \in Effects : OnLength(e) /\ IndicesOf(e) = {} /\ ~Ran(e)

(* C28: a call of an array method runs each effect at most once, also an   *)
(* effect that is a subscriber of the length and of an index.              *)
C28_OncePerCall ==
    [][last'.op \in allArrayMethods => \A e \in Effects : RunsIn(log', e) <= 1]_vars

\* shift ran, once, an effect that is a subscriber of the length and of index 0
C28_Witness ==
    /\ last.op = "shift"
    /\ \E e \in Effects :
        /\ OnLength(e)
        /\ "0" \in IndicesOf(e)
        /\ RunsIn(log, e) = 1

-----------------------------------------------------------------------------
(* Subscribers added during a notification, checked on SpecPass.           *)

\* the array in cell 3, as a raw object
Target3 == proxies[cells[3].value.n]

\* the dep whose subscribers the write op notifies
Notified(op) == IF op.op = "write" THEN CellDep(op.id) ELSE KeyDep(Target3, op.k)

\* effect e became a subscriber of dep d in this step
Joined(e, d) ==
    /\ d \in DepsHolding(cells', targetMap', e)
    /\ d \notin DepsHolding(cells, targetMap, e)

(* C29: an effect that became a subscriber of the dep a cell write or a    *)
(* property write notifies, during that write, ran once: the run that made *)
(* it a subscriber; the notification did not invoke it.                    *)
C29_WriteNotifiesSnapshot ==
    [][last'.op \in {"write", "setprop"} =>
            \A e \in 1..Len(effects') : Joined(e, Notified(last')) => RunsIn(log', e) = 1]_vars

\* a write of 1 to cell 1 ran the watcher, which set the flag, which ran the
\* computed: it read c1.value inside the watcher's run, and ran once
C29_Witness ==
    /\ last.op = "write"
    /\ last.id = 1
    /\ \E e \in Computeds :
        /\ effects[e].getter = Flagged(Cell(1))
        /\ e \in Range(cells[1].dep)
        /\ RunsIn(log, e) = 1
        /\ \E i \in 1..Len(log) : log[i].ev = "run" /\ log[i].e = e /\ Cardinality(RunningAt(i)) = 2

(* C30: an effect that became a subscriber of the array's length or of one *)
(* of its indices during a call of an array method ran once: the call's    *)
(* notification did not invoke it.                                         *)
C30_MethodNotifiesSnapshot ==
    [][last'.op \in allArrayMethods =>
            \A e \in 1..Len(effects') :
                (\E k \in Range(IndexKeys) \cup {"length"} : Joined(e, KeyDep(Target3, k)))
                    => RunsIn(log', e) = 1]_vars

-----------------------------------------------------------------------------
(* Order and growth of the deps.                                           *)

IsPrefix(a, b) == Len(a) <= Len(b) /\ SubSeq(b, 1, Len(a)) = a

\* the log's indices of the runs that began while no effect was running:
\* the runs the operation's own notification started
TopRunIndices == {i \in 1..Len(log) : log[i].ev = "run" /\ RunningAt(i - 1) = {}}

\* the effects of those runs, in order
TopRuns ==
    [k \in 1..Cardinality(TopRunIndices) |->
        log[CHOOSE i \in TopRunIndices : Cardinality({j \in TopRunIndices : j <= i}) = k].e]

\* the active effects of dep, in its order
ActiveIn(dep) == SelectSeq(dep, LAMBDA e : effects[e].active)

(* C31: every dep only grows at its end, so its order is the order in      *)
(* which its effects were first added; and a write to a cell that changes  *)
(* its value invokes the active effects of the cell's dep in that order.   *)
C31_InvokedInInsertionOrder ==
    [][/\ \A c \in 1..Len(cells) : IsPrefix(cells[c].dep, cells'[c].dep)
       /\ \A o \in DOMAIN targetMap : \A k \in AllKeys :
            IsPrefix(MapGet(targetMap[o], k), MapGet(DepsMap(St, o), k)')
       /\ (last'.op = "write" /\ err' = "none" /\ log' # <<>>) =>
            TopRuns' = ActiveIn(cells[last'.id].dep)]_vars

\* a write to cell 2 ran the second effect and then the first: the first
\* read cell 2 later than the second did
C31_Witness ==
    /\ last.op = "write"
    /\ last.id = 2
    /\ cells[2].dep = <<2, 1>>
    /\ TopRuns = <<2, 1>>

RECURSIVE InChain(_)
\* computed e is a link of a chain cell -> computed -> computed ..., each
\* link's getter doubling what it reads from the link before
InChain(e) ==
    /\ effects[e].kind = "computed"
    /\ effects[e].getter.body = <<>>
    /\ effects[e].getter.ret.op = "dbl"
    /\ \/ effects[e].getter.ret.a.op = "cell"
       \/ effects[e].getter.ret.a.op = "comp" /\ InChain(effects[e].getter.ret.a.e)

(* C32: a write to a cell runs each link of a chain of computeds that      *)
(* starts at a cell at most once, and when it has returned every link      *)
(* holds its getter's value.                                               *)
C32_ChainLinkOncePerWrite ==
    [][last'.op = "write" =>
            \A e \in Computeds :
                InChain(e) =>
                    /\ RunsIn(log', e) <= 1
                    /\ cells'[effects[e].result].value = Ideal(effects[e].getter.ret)']_vars

\* a write to cell 1 ran the computed that doubles it and the computed that
\* doubles that one, each once
C32_Witness ==
    /\ last.op = "write"
    /\ last.id = 1
    /\ Len(effects) = 2
    /\ effects[1].getter.ret = Dbl(Cell(1))
    /\ effects[2].getter.ret = Dbl(Comp(1))
    /\ InChain(2)
    /\ RunsIn(log, 1) = 1
    /\ RunsIn(log, 2) = 1
    /\ Events("end", 2)[1] \in Range(SubSeq(log, 1, Len(log) - 1))

-----------------------------------------------------------------------------
(* Views of one object, checked on SpecTwin.                               *)

(* C33: the two cells hold two views of the one object, and a write that   *)
(* changes property k through one cell's view runs every effect that read  *)
(* k through the other cell's view; a computed among them then holds the   *)
(* value written.                                                          *)
C33_ViewsShareSubscribers ==
    [][/\ cells[1].value # cells[2].value
       /\ TargetOf(St, cells[1].value) = TargetOf(St, cells[2].value)
       /\ (last'.op = "setprop" /\ last'.v # RawGet(St, Target1, last'.k)) =>
            \A e \in Effects :
                (\E c \in {1, 2} : c # last'.id /\ effects[e].getter.ret = Prop(Cell(c), last'.k)) =>
                    /\ RanIn(log', e)
                    /\ e \in Computeds => cells'[effects[e].result].value = last'.v]_vars

\* x was written through cell 2 and a computed that reads x through cell 1 ran
C33_Witness ==
    /\ last.op = "setprop"
    /\ last.id = 2
    /\ last.k = "x"
    /\ \E e \in Computeds :
        /\ effects[e].getter.ret = Prop(Cell(1), "x")
        /\ Ran(e)
        /\ cells[effects[e].result].value = last.v

-----------------------------------------------------------------------------
(* Growth of the deps, checked on SpecErr.                                 *)

(* C34: no operation takes an effect out of a dep: after every operation,  *)
(* a disposer call included, each effect is in every dep it was in.        *)
C34_DepsOnlyGrow ==
    [][\A e \in Effects :
        DepsHolding(cells, targetMap, e) \subseteq DepsHolding(cells', targetMap', e)]_vars

\* a watcher was stopped and is still a subscriber of cell 1 and of the
\* array's length
C34_Witness ==
    /\ last.op = "stop"
    /\ ~effects[last.id].active
    /\ CellDep(1) \in DepsHolding(cells, targetMap, last.id)
    /\ \E o \in DOMAIN targetMap : KeyDep(o, "length") \in DepsHolding(cells, targetMap, last.id)

-----------------------------------------------------------------------------
(* Watchers and their callbacks, checked on SpecCb.                        *)

(* C35: a watcher is a subscriber of the cell its source reads and of no   *)
(* other cell, whatever its callback read.                                 *)
C35_CallbackReadsUntracked ==
    \A w \in Watchers : \A c \in 1..Len(cells) :
        w \in Range(cells[c].dep) => effects[w].getter = SourceGetter(c)

\* the log lg has a run or a callback call of watcher w after its entry i
ActsAfter(lg, w, i) ==
    \E j \in (i + 1)..Len(lg) : lg[j].ev \in {"run", "cb"} /\ lg[j].e = w

(* C36: once a watcher's disposer was called during an operation, by the   *)
(* callback of a watcher notified before it, the rest of the operation     *)
(* neither runs its source nor calls its callback, and no later operation  *)
(* does.                                                                   *)
C36_StoppedDuringNotification ==
    [][\A w \in 1..Len(effects') :
        /\ \A i \in 1..Len(log') : (log'[i].ev = "stop" /\ log'[i].e = w) => ~ActsAfter(log', w, i)
        /\ (w \in Effects /\ ~effects[w].active) => ~ActsAfter(log', w, 0)]_vars

\* a write to cell 1 ran watcher 1, whose callback stopped watcher 2, the
\* next in the cell's dep: watcher 2 did not run
C36_Witness ==
    /\ last.op = "write"
    /\ last.id = 1
    /\ cells[1].dep = <<1, 2>>
    /\ \E i \in 1..Len(log) :
        /\ log[i] = Event("stop", 2, Undefined, Undefined, TRUE)
        /\ RunningAt(i) = {1}
    /\ ~Ran(2)
    /\ ~effects[2].active

\* what the object of cell c's view has under key k
StoredAt(c, k) == RawGet(St, TargetOf(St, cells[c].value), k)

\* the log lg has no run and no callback call after an exception was thrown
AbortsAtThrow(lg) ==
    \A i \in 1..Len(lg) : lg[i].ev = "throw" =>
        \A j \in (i + 1)..Len(lg) : lg[j].ev \notin {"run", "cb"}

(* C37: when a subscriber throws during the notification of a write to a   *)
(* cell, of a property write or of a push, what was written stays: the     *)
(* cell holds the value written, the array the element assigned or pushed; *)
(* and no subscriber is invoked after the exception: the runs of a cell    *)
(* write's notification are the first active effects of the cell's dep.    *)
C37_ErrorKeepsWriteSkipsRest ==
    [][\A c \in 1..Len(cells) :
        (err' # "none" /\ last'.id = c /\ last'.op \in {"write", "setprop", "push"}) =>
            /\ AbortsAtThrow(log')
            /\ last'.op = "write" =>
                /\ cells'[c].value = last'.v
                /\ cells'[c].rawValue = last'.v
                /\ IsPrefix(TopRuns', ActiveIn(cells[c].dep))
            /\ last'.op = "setprop" =>
                \A k \in AllKeys : last'.k = k => StoredAt(c, k)' = last'.v
            /\ last'.op = "push" =>
                /\ Len(ArrayOf(c)') = Len(ArrayOf(c)) + 1
                /\ ArrayOf(c)'[Len(ArrayOf(c)) + 1] = last'.v]_vars

\* a write changed cell 1, the first effect of its dep threw and the second,
\* active, was not run
C37_Witness ==
    /\ last.op = "write"
    /\ last.id = 1
    /\ err # "none"
    /\ cells[1].value = last.v
    /\ last.v # last.prev
    /\ Len(cells[1].dep) = 2
    /\ effects[cells[1].dep[2]].active
    /\ Ran(cells[1].dep[1])
    /\ ~Ran(cells[1].dep[2])

\* a property write threw out of the first subscriber of the key, the second
\* was not run and the array keeps the value
C37_PropertyWitness ==
    /\ last.op = "setprop"
    /\ err # "none"
    /\ StoredAt(2, "0") = last.v
    /\ MapGet(DepsMap(St, TargetOf(St, cells[2].value)), "0") = <<1, 2>>
    /\ Ran(1)
    /\ ~Ran(2) /\ effects[2].active

\* a push threw out of the first subscriber of the array's length, the
\* second was not run and the array keeps the element
C37_PushWitness ==
    /\ last.op = "push"
    /\ err # "none"
    /\ Len(ArrayOf(2)) = last.prev.n + 1
    /\ \E e \in Effects : Ran(e)
    /\ \E e \in Effects : ~Ran(e) /\ effects[e].active /\ e \in Range(MapGet(DepsMap(St, TargetOf(St, cells[2].value)), "length"))

\* an active watcher of cell c whose callback copies the new value to the
\* other cell
Copies(c) ==
    \E w \in Watchers :
        /\ effects[w].active
        /\ effects[w].getter = SourceGetter(c)
        /\ effects[w].cb = CopyFn(OtherCell(c))

KeySubscribers(k) == MapGet(DepsMap(St, Target1), k)

(* C39: an assignment of the length of the array through its view that     *)
(* changes the length invokes the subscribers of "length", each once and   *)
(* in the dep's order, and an assignment of the length it has invokes      *)
(* none; no effect that is not a subscriber of "length" runs, whatever     *)
(* indices it reads and whether the assignment removed them.               *)
C39_LengthAssignmentNotifiesLength ==
    [][(last'.op = "setprop" /\ last'.k = "length") =>
            /\ TopRuns' = IF last'.v # last'.prev THEN ActiveIn(KeySubscribers("length")) ELSE <<>>
            /\ \A e \in Effects : e \notin Range(KeySubscribers("length")) => RunsIn(log', e) = 0]_vars

\* the array was cut to fewer than two elements: effect 1, a subscriber of
\* index 1 only, did not run; effect 2, a subscriber of length, did
C39_Witness ==
    /\ last.op = "setprop"
    /\ last.k = "length"
    /\ last.v.n < 2
    /\ last.prev.n >= 2
    /\ Len(ArrayOf(1)) = last.v.n
    /\ KeySubscribers("1") = <<1>>
    /\ KeySubscribers("length") = <<2>>
    /\ ~Ran(1)
    /\ Ran(2)

\* the new value of the last call of watcher w's callback in the log lg
LastNew(lg, w) == CallsIn(lg, w)[Len(CallsIn(lg, w))].new

(* C40: when a write to a cell changes the value of the source of a        *)
(* watcher that is not stopped, source and callback only reading cells and *)
(* computeds, the callback has been called when the write returns, and the *)
(* new value of its last call is the value the source has on the cells as  *)
(* the write left them.                                                    *)
C40_WatcherSeesFinalValue ==
    [][\A w \in Watchers :
        (/\ last'.op = "write" /\ err' = "none"
         /\ effects[w].active
         /\ SourceValue(w)' # SourceValue(w)) =>
            /\ Len(CallsIn(log', w)) >= 1
            /\ LastNew(log', w) = SourceValue(w)']_vars

\* a write to cell 1 called the callback of watcher 2 twice: first with the
\* new c1 and the computed's old value, then with the value the source has
\* now
C40_Witness ==
    /\ last.op = "write"
    /\ last.id = 1
    /\ err = "none"
    /\ 2 \in Watchers
    /\ effects[2].getter.ret = Add(Comp(1), Cell(1))
    /\ Len(CallsIn(log, 2)) = 2
    /\ CallsIn(log, 2)[1].new # SourceValue(2)
    /\ CallsIn(log, 2)[1].new # CallsIn(log, 2)[1].old
    /\ LastNew(log, 2) = SourceValue(2)

=============================================================================
